---- MODULE Spec2Model ----
(***************************************************************************)
(* A model of the subtitle CLI's upstream acquisition layer: the resilient *)
(* HTTP client (src/domain/providers/upstream-client.ts) and the SubHD     *)
(* provider built on it (src/domain/providers/subhd.ts).                   *)
(*                                                                         *)
(* Text that the code inspects character by character (cookie headers,    *)
(* body snippets, pages, ids) is a sequence of one-character strings; a    *)
(* CJK character is written as its code point, e.g. "U+9A8C".              *)
(***************************************************************************)
EXTENDS Integers, Sequences, FiniteSets, TLC

----------------------------------------------------------------------------
(* JavaScript string primitives used by the code.                          *)

Min(a, b) == IF a <= b THEN a ELSE b

Max(a, b) == IF a >= b THEN a ELSE b

\* The characters matched by \s and removed by trim().
Whitespace == {" ", "\t", "\n", "\r", "U+00A0", "U+3000"}

UpperChars ==
  <<"A", "B", "C", "D", "E", "F", "G", "H", "I", "J", "K", "L", "M",
    "N", "O", "P", "Q", "R", "S", "T", "U", "V", "W", "X", "Y", "Z">>

LowerChars ==
  <<"a", "b", "c", "d", "e", "f", "g", "h", "i", "j", "k", "l", "m",
    "n", "o", "p", "q", "r", "s", "t", "u", "v", "w", "x", "y", "z">>

Digits == {"0", "1", "2", "3", "4", "5", "6", "7", "8", "9"}

\* The lower-case form of each upper-case letter.
LowerOf == [c \in {UpperChars[i] : i \in 1..26} |->
              LowerChars[CHOOSE i \in 1..26 : UpperChars[i] = c]]

LowerChar(c) == IF c \in DOMAIN LowerOf THEN LowerOf[c] ELSE c

\* String.prototype.toLowerCase
toLowerCase(s) == [i \in 1..Len(s) |-> LowerChar(s[i])]

\* String.prototype.trim
trim(s) ==
  LET keep == {i \in 1..Len(s) : s[i] \notin Whitespace}
  IN IF keep = {} THEN <<>>
     ELSE SubSeq(s, CHOOSE i \in keep : \A j \in keep : i <= j,
                    CHOOSE i \in keep : \A j \in keep : i >= j)

\* s.slice(0, n)
sliceTo(s, n) == SubSeq(s, 1, Min(n, Len(s)))

\* s.slice(n), n counted from 0 as in the code
sliceFrom(s, n) == SubSeq(s, n + 1, Len(s))

\* String.prototype.startsWith
startsWith(s, prefix) ==
  Len(prefix) <= Len(s) /\ SubSeq(s, 1, Len(prefix)) = prefix

\* String.prototype.includes
includes(s, needle) ==
  \E i \in 1..(Len(s) - Len(needle) + 1) :
    \A k \in 1..Len(needle) : s[i + k - 1] = needle[k]

\* String.prototype.indexOf for one character: the 0-based index, or -1.
indexOf(s, c) ==
  LET hits == {i \in 1..Len(s) : s[i] = c}
  IN IF hits = {} THEN -1 ELSE (CHOOSE i \in hits : \A j \in hits : i <= j) - 1

\* Array.prototype.join over strings
RECURSIVE join(_, _)
join(parts, sep) ==
  IF parts = <<>> THEN <<>>
  ELSE IF Len(parts) = 1 THEN parts[1]
  ELSE parts[1] \o sep \o join(Tail(parts), sep)

\* value.replace(/\s+/g, " ").trim()  (upstream-client.ts collapseWhitespace)
collapseWhitespace(value) ==
  LET marked == [i \in 1..Len(value) |->
                   IF value[i] \notin Whitespace THEN value[i]
                   ELSE IF i > 1 /\ value[i - 1] \in Whitespace THEN "" ELSE " "]
  IN trim(SelectSeq(marked, LAMBDA c : c # ""))

(* A regular expression without groups: a sequence of lower-case literal   *)
(* characters and of the tokens "\\s+" and "\\s*", matched with the i flag. *)
RECURSIVE MatchHere(_, _, _)
MatchHere(s, i, pat) ==
  IF pat = <<>> THEN TRUE
  ELSE LET h == Head(pat)
           t == Tail(pat)
           ws == i <= Len(s) /\ s[i] \in Whitespace
       IN CASE h = "\\s+" -> ws /\ (MatchHere(s, i + 1, pat) \/ MatchHere(s, i + 1, t))
            [] h = "\\s*" -> MatchHere(s, i, t) \/ (ws /\ MatchHere(s, i + 1, pat))
            [] OTHER -> i <= Len(s) /\ LowerChar(s[i]) = h /\ MatchHere(s, i + 1, t)

\* RegExp.prototype.test for such a pattern (unanchored).
RegexTest(pat, s) == \E i \in 1..(Len(s) + 1) : MatchHere(s, i, pat)

----------------------------------------------------------------------------
(* Regular expressions with one capture group, as the parser and the       *)
(* provider use them.  A pattern is a sequence of items; an item matches    *)
(* one character of a class ("one"), a greedy or lazy run of them ("star",  *)
(* "lazy"), or is an assertion ("wordb" for \b, "end" for $) or the start    *)
(* or end of the capture group ("open", "close").                           *)

UpperOf == [c \in {LowerChars[i] : i \in 1..26} |->
              UpperChars[CHOOSE i \in 1..26 : LowerChars[i] = c]]

UpperChar(c) == IF c \in DOMAIN UpperOf THEN UpperOf[c] ELSE c

\* String.prototype.toUpperCase
toUpperCase(s) == [i \in 1..Len(s) |-> UpperChar(s[i])]

Letters == {UpperChars[i] : i \in 1..26} \cup {LowerChars[i] : i \in 1..26}

\* [A-Za-z0-9]
Alphanumerics == Letters \cup Digits

\* \w
WordChars == Alphanumerics \cup {"_"}

One(s) == [k |-> "one", s |-> s, neg |-> FALSE, str |-> <<>>]

NoneOf(s) == [k |-> "one", s |-> s, neg |-> TRUE, str |-> <<>>]

\* [\s\S]
AnyChar == NoneOf({})

Star(item) == [item EXCEPT !.k = "star"]

Lazy(item) == [item EXCEPT !.k = "lazy"]

Open == [k |-> "open", s |-> {}, neg |-> FALSE, str |-> <<>>]

Close == [k |-> "close", s |-> {}, neg |-> FALSE, str |-> <<>>]

WordB == [k |-> "wordb", s |-> {}, neg |-> FALSE, str |-> <<>>]

End == [k |-> "end", s |-> {}, neg |-> FALSE, str |-> <<>>]

\* A literal, case-sensitive and with the i flag.
Lit(str) == <<[k |-> "lit", s |-> {}, neg |-> FALSE, str |-> str]>>

LitI(str) == <<[k |-> "liti", s |-> {}, neg |-> FALSE, str |-> toLowerCase(str)]>>

NoMatch == [ok |-> FALSE, s |-> 0, e |-> 0]

ItemMatches(item, c) == (c \in item.s) # item.neg

\* The match of items k.. of pattern p at position i of text t, found by
\* backtracking in the order of a JavaScript regular expression: a greedy run
\* tries its longest extent first, a lazy run its shortest.
RECURSIVE MatchFrom(_, _, _, _)
MatchFrom(p, k, t, i) ==
  IF k > Len(p) THEN [ok |-> TRUE, s |-> 0, e |-> 0]
  ELSE LET it == p[k]
           n == Len(it.str)
           isWord(j) == j >= 1 /\ j <= Len(t) /\ t[j] \in WordChars
           stops == {m \in i..Len(t) : ~ItemMatches(it, t[m])} \cup {Len(t) + 1}
           stop == CHOOSE m \in stops : \A m2 \in stops : m <= m2
           good == {j \in i..stop : MatchFrom(p, k + 1, t, j).ok}
       IN CASE it.k = "one" ->
                 IF i <= Len(t) /\ ItemMatches(it, t[i])
                 THEN MatchFrom(p, k + 1, t, i + 1) ELSE NoMatch
            [] it.k = "lit" ->
                 IF i + n - 1 <= Len(t) /\ \A m \in 1..n : t[i + m - 1] = it.str[m]
                 THEN MatchFrom(p, k + 1, t, i + n) ELSE NoMatch
            [] it.k = "liti" ->
                 IF /\ i + n - 1 <= Len(t)
                    /\ \A m \in 1..n : LowerChar(t[i + m - 1]) = it.str[m]
                 THEN MatchFrom(p, k + 1, t, i + n) ELSE NoMatch
            [] it.k = "star" ->
                 IF good = {} THEN NoMatch
                 ELSE MatchFrom(p, k + 1, t, CHOOSE j \in good : \A j2 \in good : j >= j2)
            [] it.k = "lazy" ->
                 IF good = {} THEN NoMatch
                 ELSE MatchFrom(p, k + 1, t, CHOOSE j \in good : \A j2 \in good : j <= j2)
            [] it.k = "open" -> [MatchFrom(p, k + 1, t, i) EXCEPT !.s = i]
            [] it.k = "close" -> [MatchFrom(p, k + 1, t, i) EXCEPT !.e = i]
            [] it.k = "wordb" ->
                 IF isWord(i - 1) # isWord(i) THEN MatchFrom(p, k + 1, t, i) ELSE NoMatch
            [] it.k = "end" ->
                 IF i = Len(t) + 1 THEN MatchFrom(p, k + 1, t, i) ELSE NoMatch

\* The least member of a non-empty set of integers.
Least(S) == CHOOSE i \in S : \A j \in S : i <= j

\* The match object of a match that starts at index at: [ok, at, s, e, group],
\* where s and e bound the capture group and group is its text.
matchObject(t, at, r) ==
  [ok |-> TRUE, at |-> at, s |-> r.s, e |-> r.e, group |-> SubSeq(t, r.s, r.e - 1)]

\* The leftmost match among the start indexes where the pattern matches.
leftmostMatch(p, t, starts) ==
  IF starts = {} THEN [ok |-> FALSE, at |-> 0, s |-> 0, e |-> 0, group |-> <<>>]
  ELSE matchObject(t, Least(starts), MatchFrom(p, 1, t, Least(starts)))

\* RegExp.prototype.exec: the match object of the leftmost match.
RegexExec(p, t) ==
  leftmostMatch(p, t, {i \in 1..(Len(t) + 1) : MatchFrom(p, 1, t, i).ok})

\* RegExp.prototype.test for one of several alternatives.
RegexTestAny(ps, t) == \E p \in ps : \E i \in 1..(Len(t) + 1) : MatchFrom(p, 1, t, i).ok

----------------------------------------------------------------------------
(* upstream-client.ts: constants and pure functions.                       *)

RETRYABLE_STATUS == {408, 425, 429, 500, 502, 503, 504}

DefaultTimeoutMs == 12000

DefaultRetries == 2

DefaultBackoffMs == 250

DefaultMaxBackoffMs == 3000

SnippetLimit == 320

\* An optional number is the empty set (undefined) or a singleton.
normalizePositiveInt(value, fallback) ==
  IF value = {} \/ (\E v \in value : v <= 0) THEN fallback
  ELSE CHOOSE v \in value : TRUE

normalizeNonNegativeInt(value, fallback) ==
  IF value = {} \/ (\E v \in value : v < 0) THEN fallback
  ELSE CHOOSE v \in value : TRUE

computeBackoffFromTwo(baseMs, maxMs, attempt) == Min(maxMs, baseMs * 2 ^ attempt)

computeBackoff(baseMs, maxMs, attempt) ==
  LET multiplier == 2 ^ Max(0, attempt - 1)
  IN Min(maxMs, baseMs * multiplier)

\* readSnippet on a body that arrived: collapseWhitespace(text).slice(0, 320)
snippetOf(text) == sliceTo(collapseWhitespace(text), SnippetLimit)

\* /too\s+many\s+requests|rate\s*limit/iu
RateLimitPatterns ==
  { <<"t", "o", "o", "\\s+", "m", "a", "n", "y", "\\s+",
      "r", "e", "q", "u", "e", "s", "t", "s">>,
    <<"r", "a", "t", "e", "\\s*", "l", "i", "m", "i", "t">> }

AntiBotNeedlesScriptOnly == { <<"j", "s", "d", "/", "m", "a", "i", "n", ".", "j", "s">> }

AntiBotNeedles ==
  { <<"c", "h", "a", "l", "l", "e", "n", "g", "e", "-", "p", "l", "a", "t", "f", "o", "r", "m">>,
    <<"c", "l", "o", "u", "d", "f", "l", "a", "r", "e">>,
    <<"c", "f", "-", "c", "h", "a", "l", "l", "e", "n", "g", "e">>,
    <<"c", "a", "p", "t", "c", "h", "a">>,
    <<"U+9A8C", "U+8BC1", "U+7801">>,
    <<"U+9A8C", "U+8BC1", "U+83B7", "U+53D6", "U+4E0B", "U+8F7D", "U+5730", "U+5740">>,
    <<"j", "s", "d", "/", "m", "a", "i", "n", ".", "j", "s">>,
    <<"a", "t", "t", "e", "n", "t", "i", "o", "n", " ", "r", "e", "q", "u", "i", "r", "e", "d">> }

looksLikeAntiBotChallengeNever(text) == FALSE

looksLikeAntiBotChallenge(text) ==
  LET snippet == toLowerCase(text)
  IN \E needle \in AntiBotNeedles : includes(snippet, needle)

classifyResponseAntiBotFirst(status, snippet) ==
  IF status = 403 \/ status = 401 \/ looksLikeAntiBotChallenge(snippet)
  THEN "anti-bot"
  ELSE IF status = 429 \/ (\E pat \in RateLimitPatterns : RegexTest(pat, snippet))
  THEN "rate-limit"
  ELSE "bad-response"

classifyResponse(status, snippet) ==
  IF status = 429 \/ (\E pat \in RateLimitPatterns : RegexTest(pat, snippet))
  THEN "rate-limit"
  ELSE IF status = 403 \/ status = 401 \/ looksLikeAntiBotChallenge(snippet)
  THEN "anti-bot"
  ELSE "bad-response"

classifyResponseError(providerId, url, status, snippet) ==
  [type |-> "CliAppError",
   code |-> "E_UPSTREAM_BAD_RESPONSE",
   details |-> [provider |-> providerId,
                url |-> url,
                status |-> status,
                classification |-> classifyResponse(status, snippet),
                snippet |-> snippet]]

(* A thrown value is a CliAppError record, another Error                   *)
(* [type |-> "Error", name, message], or a non-Error value                 *)
(* [type |-> "value", message].                                            *)
isAbortErrorByNameAbortOnly(error) ==
  IF error.type # "Error" THEN FALSE ELSE error.name = "AbortError"

isAbortError(error) ==
  IF error.type # "Error" THEN FALSE
  ELSE error.name = "AbortError" \/ error.name = "TimeoutError"

mapFetchError(error, providerId, url, timeoutMs) ==
  IF error.type = "CliAppError" THEN error
  ELSE IF isAbortError(error)
  THEN [type |-> "CliAppError",
        code |-> "E_UPSTREAM_TIMEOUT",
        details |-> [provider |-> providerId, url |-> url, timeoutMs |-> timeoutMs],
        cause |-> error]
  ELSE [type |-> "CliAppError",
        code |-> "E_UPSTREAM_NETWORK",
        details |-> [provider |-> providerId, url |-> url, reason |-> error.message],
        cause |-> error]

----------------------------------------------------------------------------
(* upstream-client.ts: the cookie jar.  The jar is a Map, modelled as the  *)
(* sequence of its <<name, value>> entries in insertion order.             *)

jarHas(cookieJar, name) == \E i \in 1..Len(cookieJar) : cookieJar[i][1] = name

\* Map.prototype.delete
jarDelete(cookieJar, name) == SelectSeq(cookieJar, LAMBDA e : e[1] # name)

\* Map.prototype.set: an existing key keeps its position.
jarSet(cookieJar, name, value) ==
  IF jarHas(cookieJar, name)
  THEN [i \in 1..Len(cookieJar) |->
          IF cookieJar[i][1] = name THEN <<name, value>> ELSE cookieJar[i]]
  ELSE Append(cookieJar, <<name, value>>)

\* raw.split(";", 1)[0]
firstSplit(raw, sep) ==
  LET k == indexOf(raw, sep) IN IF k < 0 THEN raw ELSE sliceTo(raw, k)

mergeCookie(cookieJar, raw) ==
  LET firstSegment == trim(firstSplit(raw, ";"))
      eqIndex == indexOf(firstSegment, "=")
      name == trim(sliceTo(firstSegment, eqIndex))
      value == trim(sliceFrom(firstSegment, eqIndex + 1))
  IN IF Len(firstSegment) = 0 THEN cookieJar
     ELSE IF eqIndex <= 0 THEN cookieJar
     ELSE IF Len(name) = 0 THEN cookieJar
     ELSE IF Len(value) = 0 \/ value = <<"d", "e", "l", "e", "t", "e", "d">>
     THEN jarDelete(cookieJar, name)
     ELSE jarSet(cookieJar, name, value)

\* The loop of splitCombinedSetCookieHeader from position index (1-based).
RECURSIVE splitLoop(_, _, _, _, _)
splitLoop(raw, index, buffer, insideExpires, parts) ==
  IF index > Len(raw)
  THEN LET normalized == trim(buffer)
       IN IF Len(normalized) > 0 THEN Append(parts, normalized) ELSE parts
  ELSE LET char == raw[index]
           tail == toLowerCase(sliceFrom(raw, index - 1))
           inside == insideExpires
                     \/ startsWith(tail, <<"e", "x", "p", "i", "r", "e", "s", "=">>)
       IN IF char = "," /\ ~inside
          THEN LET normalized == trim(buffer)
               IN splitLoop(raw, index + 1, <<>>, inside,
                            IF Len(normalized) > 0 THEN Append(parts, normalized)
                            ELSE parts)
          ELSE splitLoop(raw, index + 1, buffer \o <<char>>,
                         IF char = ";" THEN FALSE ELSE inside, parts)

splitCombinedSetCookieHeader(raw) == splitLoop(raw, 1, <<>>, FALSE, <<>>)

(* A Headers object is [api, setCookie]: setCookie is the list of the      *)
(* response's Set-Cookie field values, api is what the runtime's Headers   *)
(* offers: "getSetCookie", "raw" (node-fetch) or "get" alone, where        *)
(* get("set-cookie") returns the values joined by ", " (null when none).   *)
readSetCookieHeaders(headers) ==
  CASE headers.api = "getSetCookie" -> headers.setCookie
    [] headers.api = "raw" -> headers.setCookie
    [] OTHER -> IF headers.setCookie = <<>> THEN <<>>
                ELSE splitCombinedSetCookieHeader(join(headers.setCookie, <<",", " ">>))

RECURSIVE mergeAll(_, _)
mergeAll(cookieJar, cookies) ==
  IF cookies = <<>> THEN cookieJar
  ELSE mergeAll(mergeCookie(cookieJar, Head(cookies)), Tail(cookies))

\* UpstreamClient.mergeResponseCookies: the jar after the response.
mergeResponseCookies(cookieJar, baseOrigin, url, headers) ==
  IF url.origin # baseOrigin THEN cookieJar
  ELSE mergeAll(cookieJar, readSetCookieHeaders(headers))

\* UpstreamClient.serializeCookies
serializeCookies(cookieJar) ==
  join([i \in 1..Len(cookieJar) |-> cookieJar[i][1] \o <<"=">> \o cookieJar[i][2]],
       <<";", " ">>)

(* A URL is [origin, path].  A pathOrUrl is [kind, origin, path] with kind *)
(* "absolute" (it matches /^https?:\/\//i), "path" ("/down/x") or          *)
(* "scheme-relative" ("//host/x", which new URL resolves to another host). *)
resolveUrl(baseUrl, pathOrUrl) ==
  IF pathOrUrl.kind = "absolute"
  THEN [origin |-> pathOrUrl.origin, path |-> pathOrUrl.path,
        search |-> pathOrUrl.search]
  ELSE IF pathOrUrl.kind = "scheme-relative"
  THEN [origin |-> pathOrUrl.origin, path |-> pathOrUrl.path,
        search |-> pathOrUrl.search]
  ELSE [origin |-> baseUrl.origin, path |-> pathOrUrl.path,
        search |-> pathOrUrl.search]

\* Headers.prototype.set on a map from header names to values.
headersSet(headers, name, value) ==
  [n \in DOMAIN headers \cup {name} |-> IF n = name THEN value ELSE headers[n]]

requestHeadersAnyOrigin(options, userAgent, cookieJar, baseOrigin, url) ==
  LET given == options.headers
      withAgent == IF "user-agent" \in DOMAIN given THEN given
                   ELSE headersSet(given, "user-agent", userAgent)
      cookie == serializeCookies(cookieJar)
  IN IF Len(cookie) > 0 THEN headersSet(withAgent, "cookie", cookie) ELSE withAgent

requestHeadersCookieAlone(options, userAgent, cookieJar, baseOrigin, url) ==
  LET given == options.headers
      withAgent == IF "user-agent" \in DOMAIN given THEN given
                   ELSE headersSet(given, "user-agent", userAgent)
      cookie == serializeCookies(cookieJar)
  IN IF Len(cookie) > 0 /\ url.origin = baseOrigin
     THEN [n \in {"cookie"} |-> cookie]
     ELSE withAgent

\* The headers fetchWithTimeout hands to the transport (lines 149-157).
requestHeaders(options, userAgent, cookieJar, baseOrigin, url) ==
  LET given == options.headers
      withAgent == IF "user-agent" \in DOMAIN given THEN given
                   ELSE headersSet(given, "user-agent", userAgent)
      cookie == serializeCookies(cookieJar)
  IN IF Len(cookie) > 0 /\ url.origin = baseOrigin
     THEN headersSet(withAgent, "cookie", cookie)
     ELSE withAgent

----------------------------------------------------------------------------
(* Bounds and input domains.                                               *)

\* The retries option ranges over undefined, -1 and 0..MaxRetries.
MaxRetries == 2

\* Top-level calls made on one client.
MaxCalls == 2

\* Top-level calls made on one provider of the catalog scenario, whose search
\* pages are long.
MaxCatalogCalls == 1

CallLimit(scn) == IF scn = "catalog" THEN MaxCatalogCalls ELSE MaxCalls

BaseOrigin == "https://subhd.test"

OtherOrigin == "https://dl.subhd.test"

BaseUrl == [origin |-> BaseOrigin, path |-> <<>>, search |-> <<>>]

\* The options a client is constructed with, by scenario: the retry scenario
\* varies the retry and backoff options, the others fix the backoff.
ClientOptions(scn) ==
  IF scn = "retry"
  THEN { [providerId |-> "subhd", baseUrl |-> BaseUrl, timeoutMs |-> {},
          retries |-> o[1], backoffMs |-> o[2], maxBackoffMs |-> o[3],
          userAgent |-> "subtitle-cli/subhd"] :
           o \in {<<{}, {}, {}>>, <<{-1}, {0}, {-5}>>}
                 \cup {<<{n}, {100}, {150}>> : n \in 0..MaxRetries} }
  ELSE { [providerId |-> "subhd", baseUrl |-> BaseUrl, timeoutMs |-> {5},
          retries |-> {n}, backoffMs |-> {}, maxBackoffMs |-> {},
          userAgent |-> "subtitle-cli/subhd"] : n \in 0..1 }

CookieTk == <<"t", "k", "=", "a", "b", "c", ";", " ", "P", "a", "t", "h", "=", "/">>

CookieTkDeleted == <<"t", "k", "=", "d", "e", "l", "e", "t", "e", "d">>

CookieA1 == <<"a", "=", "1">>

CookieA2Expires ==
  <<"a", "=", "2", ";", " ", "E", "x", "p", "i", "r", "e", "s", "=",
    "W", "e", "d", ",", " ", "2", "1", " ", "O", "c", "t">>

CookieAEmpty == <<" ", "a", " ", "=", " ", ";", " ", "P", "a", "t", "h", "=", "/">>

CookieNoName == <<"=", "x">>

CookieNoEquals == <<"f", "l", "a", "g">>

\* The Set-Cookie field values of a response, in order.
SetCookieLists ==
  { <<>>, <<CookieTk>>, <<CookieA1>>, <<CookieTkDeleted>>, <<CookieAEmpty>>,
    <<CookieA2Expires, CookieTk>>, <<CookieTk, CookieA2Expires>>,
    <<CookieNoName, CookieNoEquals>> }

NoSetCookie == [api |-> "getSetCookie", setCookie |-> <<>>]

\* The headers of a response, by scenario.
ResponseHeaders(scn) ==
  CASE scn = "retry" -> {NoSetCookie}
    [] scn = "catalog" -> {NoSetCookie}
    [] scn = "cookies" ->
         {[api |-> "getSetCookie", setCookie |-> l] : l \in SetCookieLists}
         \cup {[api |-> a, setCookie |-> l] :
                 a \in {"raw", "get"},
                 l \in {<<CookieTk>>, <<CookieA2Expires, CookieTk>>,
                        <<CookieTk, CookieA2Expires>>}}
    [] OTHER ->
         { NoSetCookie,
           [api |-> "getSetCookie", setCookie |-> <<CookieTk>>],
           [api |-> "getSetCookie", setCookie |-> <<CookieTkDeleted>>],
           [api |-> "get", setCookie |-> <<CookieTk>>],
           [api |-> "get", setCookie |-> <<CookieA2Expires, CookieTk>>] }

\* The status of a response, by scenario.
Statuses(scn) ==
  IF scn = "retry"
  THEN {200, 204, 400, 401, 403, 404, 408, 425, 429, 500, 502, 503, 504}
  ELSE {200, 404, 503}

\* Bodies of non-2xx responses, by scenario.
ErrorBodies(scn) ==
  IF scn = "retry"
  THEN { <<>>,
         <<" ", "n", "o", "t", "\n", " ", "f", "o", "u", "n", "d", " ">>,
         <<"T", "o", "o", " ", "M", "a", "n", "y", " ", " ",
           "R", "e", "q", "u", "e", "s", "t", "s">>,
         <<"C", "a", "p", "t", "c", "h", "a">> }
  ELSE { <<>> }

\* What a transport call can throw by itself, by scenario.
TransportErrors(scn) ==
  IF scn = "retry"
  THEN { [type |-> "Error", name |-> "TypeError", message |-> "getaddrinfo ENOTFOUND"],
         [type |-> "Error", name |-> "TimeoutError", message |-> "timed out"],
         [type |-> "value", message |-> "boom"] }
  ELSE { [type |-> "Error", name |-> "TypeError", message |-> "getaddrinfo ENOTFOUND"] }

\* What the transport throws once the timer has aborted the signal.
AbortError == [type |-> "Error", name |-> "AbortError", message |-> "Aborted"]

BodyError == [type |-> "Error", name |-> "TypeError", message |-> "terminated"]

PageHtml == <<"<", "h", "5", ">", "M", "a", "t", "r", "i", "x", "<", "/", "h", "5", ">">>

ChallengeHtml ==
  <<"<", "s", "c", "r", "i", "p", "t", " ", "s", "r", "c", "=",
    "/", "j", "s", "d", "/", "m", "a", "i", "n", ".", "j", "s", ">">>

NoHeaders == [n \in {} |-> ""]

NoUrl == [kind |-> "path", origin |-> "", path |-> <<>>, search |-> <<>>]

(* A JSON body is text that does not parse, or the value response.json()   *)
(* yields: null, or an object whose optional members are the empty set     *)
(* (absent) or a singleton.  The url member is a pathOrUrl, or a string of *)
(* kind "blank" (only whitespace) or "invalid" (new URL throws on it).     *)
JsonObject(success, pass, msg, url) ==
  [valid |-> TRUE,
   value |-> [kind |-> "object", success |-> success, pass |-> pass,
              msg |-> msg, url |-> url]]

ResolvedAbsolute ==
  [kind |-> "absolute", origin |-> OtherOrigin, path |-> <<<<"f", "i", "l", "e", "s">>, <<"x", ".", "a", "s", "s">>>>, search |-> <<>>]

ResolvedRelative == [kind |-> "path", origin |-> "", path |-> <<<<"d", "l">>, <<"x", ".", "s", "r", "t">>>>, search |-> <<>>]

\* Resolved URLs of the catalog scenario: an escaped name and a query, an
\* extension that is no subtitle format, no path segment at all, and a
\* malformed escape.
ResolvedEscaped ==
  [kind |-> "absolute", origin |-> OtherOrigin,
   path |-> <<<<"f", "i", "l", "e", "s">>, <<"T", "h", "e", "%", "2", "0", "M", "a", "t", "r", "i", "x", ".", "s", "r", "t">>>>,
   search |-> <<"?", "t", "o", "k", "e", "n", "=", "1">>]

ResolvedArchive ==
  [kind |-> "absolute", origin |-> OtherOrigin,
   path |-> <<<<"d", "l">>, <<"p", "a", "c", "k", ".", "z", "i", "p">>>>,
   search |-> <<>>]

ResolvedBare ==
  [kind |-> "absolute", origin |-> OtherOrigin,
   path |-> <<>>,
   search |-> <<>>]

ResolvedMalformed ==
  [kind |-> "absolute", origin |-> OtherOrigin,
   path |-> <<<<"f", "i", "l", "e", "s">>, <<"%", "E", "0", "%", "A", "4", "%", "A", ".", "a", "s", "s">>>>,
   search |-> <<>>]

MsgOk == <<"o", "k">>

MsgVerify ==
  <<"U+8BF7", "U+8FDB", "U+884C", "U+9A8C", "U+8BC1", "U+7801", "U+9A8C", "U+8BC1">>

MsgRate == <<"R", "a", "t", "e", " ", "L", "i", "m", "i", "t", " ", "h", "i", "t">>

\* Bodies of 2xx responses read as JSON, by scenario.
JsonBodies(scn) ==
  IF scn = "provider"
  THEN { [valid |-> FALSE, message |-> "Unexpected token"],
         [valid |-> TRUE, value |-> [kind |-> "null"]],
         JsonObject({TRUE}, {TRUE}, {MsgOk}, {ResolvedAbsolute}),
         JsonObject({TRUE}, {TRUE}, {}, {ResolvedRelative}),
         JsonObject({TRUE}, {FALSE}, {MsgOk}, {ResolvedAbsolute}),
         JsonObject({TRUE}, {TRUE}, {MsgOk}, {}),
         JsonObject({}, {TRUE}, {}, {[kind |-> "blank", origin |-> "", path |-> <<>>, search |-> <<>>]}),
         JsonObject({FALSE}, {FALSE}, {MsgVerify}, {}),
         JsonObject({TRUE}, {FALSE}, {MsgVerify}, {}),
         JsonObject({FALSE}, {FALSE}, {MsgRate}, {}) }
  ELSE IF scn = "catalog"
  THEN { [valid |-> TRUE, value |-> [kind |-> "null"]] }
       \cup { JsonObject({TRUE}, {TRUE}, {MsgOk}, {url}) :
                url \in {ResolvedAbsolute, ResolvedEscaped, ResolvedArchive,
                         ResolvedBare, ResolvedMalformed} }
  ELSE { [valid |-> FALSE, message |-> "Unexpected token"],
         JsonObject({TRUE}, {}, {}, {}) }

BinaryBodies == { <<1, 2, 3, 4>> }

\* The calls a user of the bare client makes: <<method of the client, options>>.
DirectCalls(scn) ==
  IF scn = "retry"
  THEN { <<"request", [pathOrUrl |-> [kind |-> "path", origin |-> "", path |-> <<<<"a">>>>, search |-> <<>>],
                       method |-> {}, headers |-> NoHeaders, body |-> {}]>>,
         <<"requestText", [pathOrUrl |-> [kind |-> "absolute", origin |-> OtherOrigin,
                                          path |-> <<<<"b">>>>, search |-> <<>>],
                           method |-> {"GET"},
                           headers |-> [n \in {"user-agent"} |-> "probe"], body |-> {}]>>,
         <<"requestJson", [pathOrUrl |-> [kind |-> "path", origin |-> "",
                                          path |-> <<<<"a", "p", "i">>>>, search |-> <<>>],
                           method |-> {"POST"}, headers |-> NoHeaders, body |-> {}]>>,
         <<"requestBinary", [pathOrUrl |-> [kind |-> "absolute", origin |-> OtherOrigin,
                                            path |-> <<<<"f">>>>, search |-> <<>>],
                             method |-> {}, headers |-> NoHeaders, body |-> {}]>> }
  ELSE { <<"request", [pathOrUrl |-> [kind |-> "path", origin |-> "", path |-> <<<<"a">>>>, search |-> <<>>],
                       method |-> {}, headers |-> NoHeaders, body |-> {}]>>,
         <<"requestText", [pathOrUrl |-> [kind |-> "absolute", origin |-> BaseOrigin,
                                          path |-> <<<<"b">>>>, search |-> <<>>],
                           method |-> {"POST"},
                           headers |-> [n \in {"accept"} |-> "text/html"],
                           body |-> {<<"q", "=", "1">>}]>>,
         <<"request", [pathOrUrl |-> [kind |-> "scheme-relative", origin |-> OtherOrigin,
                                      path |-> <<<<"f">>>>, search |-> <<>>],
                       method |-> {}, headers |-> NoHeaders, body |-> {}]>>,
         <<"request", [pathOrUrl |-> [kind |-> "absolute", origin |-> OtherOrigin,
                                      path |-> <<<<"f">>>>, search |-> <<>>],
                       method |-> {}, headers |-> NoHeaders, body |-> {}]>> }

(* What each Set-Cookie fixture stands for, read off the fixture by hand:   *)
(* its cookie name and value, or nothing for a field without a name.       *)
SetCookieMeaning(raw) ==
  CASE raw = CookieTk -> {<<<<"t", "k">>, <<"a", "b", "c">>>>}
    [] raw = CookieTkDeleted -> {<<<<"t", "k">>, <<"d", "e", "l", "e", "t", "e", "d">>>>}
    [] raw = CookieA1 -> {<<<<"a">>, <<"1">>>>}
    [] raw = CookieA2Expires -> {<<<<"a">>, <<"2">>>>}
    [] raw = CookieAEmpty -> {<<<<"a">>, <<>>>>}
    [] OTHER -> {}

(* The history of Set-Cookie fields as name-value pairs: a field sets its   *)
(* name to its value, and removes the name when the value is empty or the  *)
(* literal "deleted".                                                      *)
RECURSIVE SetCookiesApplied(_, _)
SetCookiesApplied(pairs, fields) ==
  IF fields = <<>> THEN pairs
  ELSE LET m == SetCookieMeaning(Head(fields))
           nv == CHOOSE x \in m : TRUE
           others == {q \in pairs : q[1] # nv[1]}
           next == IF m = {} THEN pairs
                   ELSE IF nv[2] = <<>> \/ nv[2] = <<"d", "e", "l", "e", "t", "e", "d">>
                   THEN others
                   ELSE others \cup {nv}
       IN SetCookiesApplied(next, Tail(fields))

\* The ids handed to the provider.
ProviderIds ==
  { <<"s", "u", "b", "h", "d", ":", "x", "D", "0">>,
    <<" ", "a", "1", " ">>,
    <<"s", "u", "b", "h", "d", ":">>,
    <<"x", "/", "y">>,
    <<" ", " ">> }

----------------------------------------------------------------------------
(* subhd-parser.ts: extraction of search cards and of the download page.   *)

\* The first 0-based index of needle in s at or after from, or -1.
indexOfFrom(s, needle, from) ==
  LET hits == {i \in (from + 1)..(Len(s) - Len(needle) + 1) :
                 \A k \in 1..Len(needle) : s[i + k - 1] = needle[k]}
  IN IF hits = {} THEN -1 ELSE (CHOOSE i \in hits : \A j \in hits : i <= j) - 1

\* String.prototype.split for a non-empty separator
RECURSIVE split(_, _)
split(s, sep) ==
  LET at == indexOfFrom(s, sep, 0)
  IN IF at = -1 THEN <<s>>
     ELSE <<SubSeq(s, 1, at)>> \o split(SubSeq(s, at + Len(sep) + 1, Len(s)), sep)

\* String.prototype.replaceAll for a non-empty string pattern
RECURSIVE replaceAll(_, _, _)
replaceAll(s, from, to) ==
  LET at == indexOfFrom(s, from, 0)
  IN IF at = -1 THEN s
     ELSE SubSeq(s, 1, at) \o to
          \o replaceAll(SubSeq(s, at + Len(from) + 1, Len(s)), from, to)

\* The printable ASCII characters, from code point 32 to 126 (the grave accent
\* is written as its code point).
AsciiChars ==
  <<" ", "!", "\"", "#", "$", "%", "&", "'", "(", ")", "*", "+", ",", "-",
    ".", "/", "0", "1", "2", "3", "4", "5", "6", "7", "8", "9", ":", ";",
    "<", "=", ">", "?", "@", "A", "B", "C", "D", "E", "F", "G", "H", "I",
    "J", "K", "L", "M", "N", "O", "P", "Q", "R", "S", "T", "U", "V", "W",
    "X", "Y", "Z", "[", "\\", "]", "^", "_", "U+0060", "a", "b", "c", "d", "e",
    "f", "g", "h", "i", "j", "k", "l", "m", "n", "o", "p", "q", "r", "s",
    "t", "u", "v", "w", "x", "y", "z", "{", "|", "}", "~">>

HexDigits ==
  <<"0", "1", "2", "3", "4", "5", "6", "7", "8", "9", "A", "B", "C", "D", "E", "F">>

RECURSIVE Hex(_, _)
Hex(n, width) ==
  IF width = 0 /\ n = 0 THEN ""
  ELSE Hex(n \div 16, Max(0, width - 1)) \o HexDigits[(n % 16) + 1]

MaxCodePoint == 1114111

\* String.fromCodePoint for a code point in 1..0x10FFFF, in the notation of
\* this module.
fromCodePoint(n) ==
  IF n \in 32..126 THEN AsciiChars[n - 31]
  ELSE IF n = 9 THEN "\t" ELSE IF n = 10 THEN "\n" ELSE IF n = 13 THEN "\r"
  ELSE "U+" \o Hex(n, 4)

DigitValue(c) == CHOOSE d \in 0..9 : AsciiChars[17 + d] = c

\* Decimal digit runs longer than this (leading zeros apart) are not computed.
MaxDigits == 9

RECURSIVE decimalOf(_)
decimalOf(digits) ==
  IF digits = <<>> THEN 0
  ELSE decimalOf(SubSeq(digits, 1, Len(digits) - 1)) * 10 + DigitValue(digits[Len(digits)])

\* Number.parseInt(digits, 10) for a run of decimal digits; a longer run than
\* MaxDigits counts as 10^MaxDigits.
parseDecimal(digits) ==
  LET nonzero == {i \in 1..Len(digits) : digits[i] # "0"}
      significant ==
        IF nonzero = {} THEN <<>>
        ELSE SubSeq(digits, CHOOSE i \in nonzero : \A j \in nonzero : i <= j, Len(digits))
  IN IF Len(significant) > MaxDigits THEN 10 ^ MaxDigits ELSE decimalOf(significant)

\* /&#(\d+);/u
NumericReference ==
  Lit(<<"&", "#">>) \o <<Open, One(Digits), Star(One(Digits)), Close>> \o Lit(<<";">>)

\* The first match of /&#(\d+);/ in s: [ok, at, len, codePoint].
numericReferenceOf(match) ==
  IF ~match.ok THEN [ok |-> FALSE, at |-> 0, len |-> 0, codePoint |-> 0]
  ELSE [ok |-> TRUE, at |-> match.at, len |-> match.e - match.at + 1,
        codePoint |-> parseDecimal(match.group)]

firstNumericReference(s) == numericReferenceOf(RegexExec(NumericReference, s))

\* named.replace(/&#(\d+);/gu, ...) of decodeHtmlEntities, where no code point
\* is above 0x10FFFF.
RECURSIVE replaceNumericReferences(_)
RECURSIVE replaceNumericReference(_, _)
replaceNumericReference(s, m) ==
  IF ~m.ok THEN s
  ELSE SubSeq(s, 1, m.at - 1)
       \o (IF m.codePoint <= 0 THEN <<>> ELSE <<fromCodePoint(m.codePoint)>>)
       \o replaceNumericReferences(SubSeq(s, m.at + m.len, Len(s)))

replaceNumericReferences(s) == replaceNumericReference(s, firstNumericReference(s))

\* The named entities are replaced one after the other (lines 167-173).
decodeNamedEntities(value) ==
  LET a == replaceAll(value, <<"&", "n", "b", "s", "p", ";">>, <<" ">>)
      b == replaceAll(a, <<"&", "a", "m", "p", ";">>, <<"&">>)
      c == replaceAll(b, <<"&", "l", "t", ";">>, <<"<">>)
      d == replaceAll(c, <<"&", "g", "t", ";">>, <<">">>)
      e == replaceAll(d, <<"&", "q", "u", "o", "t", ";">>, <<"\"">>)
  IN replaceAll(e, <<"&", "#", "3", "9", ";">>, <<"'">>)

\* String.fromCodePoint throws a RangeError for a code point above 0x10FFFF.
RECURSIVE hasInvalidCodePoint(_)
RECURSIVE isInvalidCodePointFrom(_, _)
isInvalidCodePointFrom(s, m) ==
  /\ m.ok
  /\ \/ m.codePoint > MaxCodePoint
     \/ hasInvalidCodePoint(SubSeq(s, m.at + m.len, Len(s)))

hasInvalidCodePoint(s) == isInvalidCodePointFrom(s, firstNumericReference(s))

decodeHtmlEntitiesThrows(value) == hasInvalidCodePoint(decodeNamedEntities(value))

decodeHtmlEntities(value) == replaceNumericReferences(decodeNamedEntities(value))

\* value.replace(/<[^>]*>/g, " ")
RECURSIVE replaceTags(_)
replaceTags(s) ==
  LET open == indexOf(s, "<")
      rest == SubSeq(s, open + 2, Len(s))
      close == indexOf(rest, ">")
  IN IF open = -1 THEN s
     ELSE IF close = -1 THEN s
     ELSE SubSeq(s, 1, open) \o <<" ">> \o replaceTags(SubSeq(rest, close + 2, Len(rest)))

cleanText(value) == collapseWhitespace(replaceTags(decodeHtmlEntities(value)))

\* extractFirstText: the empty set (undefined) or the first non-empty cleaned
\* capture, trying the patterns in order.
RECURSIVE extractFirstText(_, _)
RECURSIVE firstTextFrom(_, _, _)
\* The cleaned capture of a match, or the empty set where nothing matched.
cleanedCapture(match) == IF match.ok THEN {cleanText(match.group)} ELSE {}

firstTextFrom(cleaned, html, patterns) ==
  IF cleaned # {} /\ cleaned # {<<>>} THEN cleaned
  ELSE extractFirstText(html, Tail(patterns))

extractFirstText(html, patterns) ==
  IF patterns = <<>> THEN {}
  ELSE firstTextFrom(cleanedCapture(RegexExec(Head(patterns), html)), html, patterns)

\* cleanText throws in extractFirstText: a pattern that is reached matches and
\* its capture holds a code point above 0x10FFFF.
RECURSIVE extractFirstTextThrows(_, _)
RECURSIVE firstTextThrowsFrom(_, _, _)
firstTextThrowsFrom(match, html, patterns) ==
  IF match.ok /\ decodeHtmlEntitiesThrows(match.group) THEN TRUE
  ELSE IF match.ok /\ Len(cleanText(match.group)) > 0 THEN FALSE
  ELSE extractFirstTextThrows(html, Tail(patterns))

extractFirstTextThrows(html, patterns) ==
  /\ patterns # <<>>
  /\ firstTextThrowsFrom(RegexExec(Head(patterns), html), html, patterns)

\* inferSubtitleFormat: the empty set (undefined) or the format.
inferSubtitleFormat(text) ==
  LET normalized == toUpperCase(text)
      word(w) == <<WordB>> \o Lit(w) \o <<WordB>>
  IN IF RegexTestAny({word(<<"A", "S", "S">>), word(<<"S", "S", "A">>)}, normalized)
     THEN {"ass"}
     ELSE IF RegexTestAny({word(<<"S", "R", "T">>)}, normalized) THEN {"srt"}
     ELSE IF RegexTestAny({word(<<"V", "T", "T">>)}, normalized) THEN {"vtt"}
     ELSE {}

StemLimit == 96

\* [\\/:*?"<>|]
ForbiddenFileChars == {"\\", "/", ":", "*", "?", "\"", "<", ">", "|"}

sanitizeFileStem(value) ==
  LET collapsed == collapseWhitespace(value)
      normalized == trim([i \in 1..Len(collapsed) |->
                            IF collapsed[i] \in ForbiddenFileChars THEN " "
                            ELSE collapsed[i]])
      clipped == trim(sliceTo(normalized, StemLimit))
  IN IF Len(clipped) > 0 THEN clipped ELSE <<"s", "u", "b", "t", "i", "t", "l", "e">>

SUBHD_CARD_MARKER ==
  <<"<", "d", "i", "v", " ", "c", "l", "a", "s", "s", "=", "\"", "b", "g",
    "-", "w", "h", "i", "t", "e", " ", "s", "h", "a", "d", "o", "w", "-", "s",
    "m", " ", "r", "o", "u", "n", "d", "e", "d", "-", "3", " ", "m", "b", "-",
    "4", "\"", ">">>

\* /href=['"]\/a\/([A-Za-z0-9]+)['"]/u
SidPattern ==
  Lit(<<"h", "r", "e", "f", "=">>) \o <<One({"'", "\""})>> \o Lit(<<"/", "a", "/">>)
  \o <<Open, One(Alphanumerics), Star(One(Alphanumerics)), Close, One({"'", "\""})>>

\* extractSubhdSid: the empty set (undefined) or the identifier.
extractSubhdSid(cardHtml) ==
  LET match == RegexExec(SidPattern, cardHtml)
  IN IF match.ok THEN {match.group} ELSE {}

\* /<div class="view-text[^>]*>\s*<a[^>]*>([\s\S]*?)<\/a>/iu and
\* /<a[^>]*class="link-dark align-middle"[^>]*>([\s\S]*?)<\/a>/iu
CardTitlePatterns ==
  << LitI(<<"<", "d", "i", "v", " ", "c", "l", "a", "s", "s", "=", "\"", "v", "i", "e", "w", "-", "t", "e", "x", "t">>)
     \o <<Star(NoneOf({">"}))>> \o Lit(<<">">>) \o <<Star(One(Whitespace))>>
     \o LitI(<<"<", "a">>) \o <<Star(NoneOf({">"}))>> \o Lit(<<">">>)
     \o <<Open, Lazy(AnyChar), Close>> \o LitI(<<"<", "/", "a", ">">>),
     LitI(<<"<", "a">>) \o <<Star(NoneOf({">"}))>>
     \o LitI(<<"c", "l", "a", "s", "s", "=", "\"", "l", "i", "n", "k", "-", "d", "a", "r", "k", " ", "a", "l", "i", "g", "n", "-", "m", "i", "d", "d", "l", "e", "\"">>)
     \o <<Star(NoneOf({">"}))>> \o Lit(<<">">>)
     \o <<Open, Lazy(AnyChar), Close>> \o LitI(<<"<", "/", "a", ">">>) >>

\* /<div class="text-truncate py-2 f11">([\s\S]*?)<\/div>/iu
LanguageLinePatterns ==
  << LitI(<<"<", "d", "i", "v", " ", "c", "l", "a", "s", "s", "=", "\"", "t", "e", "x", "t", "-", "t", "r", "u", "n", "c", "a", "t", "e", " ", "p", "y", "-", "2", " ", "f", "1", "1", "\"", ">">>)
     \o <<Open, Lazy(AnyChar), Close>> \o LitI(<<"<", "/", "d", "i", "v", ">">>) >>

\* /bi bi-download[\s\S]*?<span[^>]*>\s*([0-9][0-9,]*)\s*<\/span>/iu and
\* /下载[^0-9]*([0-9][0-9,]*)/iu
DownloadCountPatterns ==
  << LitI(<<"b", "i", " ", "b", "i", "-", "d", "o", "w", "n", "l", "o", "a", "d">>)
     \o <<Lazy(AnyChar)>> \o LitI(<<"<", "s", "p", "a", "n">>)
     \o <<Star(NoneOf({">"}))>> \o Lit(<<">">>) \o <<Star(One(Whitespace))>>
     \o <<Open, One(Digits), Star(One(Digits \cup {","})), Close>>
     \o <<Star(One(Whitespace))>> \o LitI(<<"<", "/", "s", "p", "a", "n", ">">>),
     Lit(<<"U+4E0B", "U+8F7D">>) \o <<Star(NoneOf(Digits))>>
     \o <<Open, One(Digits), Star(One(Digits \cup {","})), Close>> >>

\* Number.parseInt of the capture without its commas, or 0 without a match.
downloadCountOf(match) ==
  IF ~match.ok THEN 0 ELSE parseDecimal(SelectSeq(match.group, LAMBDA c : c # ","))

\* first ?? second for two match objects
matchOr(first, second) == IF first.ok THEN first ELSE second

extractDownloadCount(cardHtml) ==
  downloadCountOf(matchOr(RegexExec(DownloadCountPatterns[1], cardHtml),
                          RegexExec(DownloadCountPatterns[2], cardHtml)))

\* /简体|简中|chs|zh-cn/iu, /繁体|繁中|cht|zh-tw/iu, /英语|英文|\beng\b|\ben\b/iu and
\* /双语|中英|中字|中文/iu
LanguagePatterns ==
  << {Lit(<<"U+7B80", "U+4F53">>), Lit(<<"U+7B80", "U+4E2D">>), LitI(<<"c", "h", "s">>),
      LitI(<<"z", "h", "-", "c", "n">>)},
     {Lit(<<"U+7E41", "U+4F53">>), Lit(<<"U+7E41", "U+4E2D">>), LitI(<<"c", "h", "t">>),
      LitI(<<"z", "h", "-", "t", "w">>)},
     {Lit(<<"U+82F1", "U+8BED">>), Lit(<<"U+82F1", "U+6587">>),
      <<WordB>> \o LitI(<<"e", "n", "g">>) \o <<WordB>>,
      <<WordB>> \o LitI(<<"e", "n">>) \o <<WordB>>},
     {Lit(<<"U+53CC", "U+8BED">>), Lit(<<"U+4E2D", "U+82F1">>), Lit(<<"U+4E2D", "U+5B57">>), Lit(<<"U+4E2D", "U+6587">>)} >>

inferLanguage(languageLine, title) ==
  LET text == languageLine \o <<" ">> \o title
  IN IF RegexTestAny(LanguagePatterns[1], text) THEN "zh-cn"
     ELSE IF RegexTestAny(LanguagePatterns[2], text) THEN "zh-tw"
     ELSE IF RegexTestAny(LanguagePatterns[3], text) THEN "en"
     ELSE IF RegexTestAny(LanguagePatterns[4], text) THEN "zh-cn"
     ELSE "zh"

\* /听障|聋哑|sdh|\bhi\b/iu
HearingImpairedPatterns ==
  {Lit(<<"U+542C", "U+969C">>), Lit(<<"U+804B", "U+54D1">>), LitI(<<"s", "d", "h">>),
   <<WordB>> \o LitI(<<"h", "i">>) \o <<WordB>>}

\* The record built from one card that has an identifier (lines 31-52).
\* found ?? fallback for an optional value
orElse(found, fallback) == IF found = {} THEN fallback ELSE CHOOSE v \in found : TRUE

\* The record of a card, given its title and its language line.
searchItemWith(card, sid, title, languageLine) ==
  [sid |-> sid,
   title |-> title,
   language |-> inferLanguage(languageLine, title),
   format |-> orElse(inferSubtitleFormat(languageLine \o <<"\n">> \o title), "srt"),
   downloads |-> extractDownloadCount(card),
   hearingImpaired |->
     IF RegexTestAny(HearingImpairedPatterns, title \o <<" ">> \o languageLine)
     THEN {TRUE} ELSE {}]

searchItemOf(card, sid) ==
  searchItemWith(card, sid,
                 orElse(extractFirstText(card, CardTitlePatterns),
                        <<"S", "u", "b", "H", "D", " ", "s", "u", "b", "t", "i", "t", "l", "e", " ">>
                          \o sid),
                 orElse(extractFirstText(card, LanguageLinePatterns), <<>>))

\* Map.prototype.set on the entries in insertion order: an existing key keeps
\* its position and takes the new value.
mapSet(entries, item) ==
  IF \E i \in 1..Len(entries) : entries[i].sid = item.sid
  THEN [i \in 1..Len(entries) |->
          IF entries[i].sid = item.sid THEN item ELSE entries[i]]
  ELSE Append(entries, item)

RECURSIVE dedupeCards(_, _)
\* One turn of the loop over the cards: a card without an identifier is
\* skipped.
withCard(deduped, card, sid) ==
  IF sid = {} THEN deduped ELSE mapSet(deduped, searchItemOf(card, CHOOSE x \in sid : TRUE))

dedupeCards(cards, deduped) ==
  IF cards = <<>> THEN deduped
  ELSE dedupeCards(Tail(cards), withCard(deduped, Head(cards), extractSubhdSid(Head(cards))))

parseSubhdSearchItems(html) ==
  dedupeCards(Tail(split(html, SUBHD_CARD_MARKER)), <<>>)

\* parseSubhdSearchItems throws: cleanText meets a code point above 0x10FFFF
\* in the title or the language line of a card that has an identifier.
parseSubhdSearchItemsThrows(html) ==
  LET cards == Tail(split(html, SUBHD_CARD_MARKER))
  IN \E i \in 1..Len(cards) :
       /\ extractSubhdSid(cards[i]) # {}
       /\ \/ extractFirstTextThrows(cards[i], CardTitlePatterns)
          \/ extractFirstTextThrows(cards[i], LanguageLinePatterns)

\* /<h5 class="card-header">([\s\S]*?)<\/h5>/iu and
\* /<div class="f16 fw-bold mb-2">([\s\S]*?)<\/div>/iu
PageTitlePatterns ==
  << LitI(<<"<", "h", "5", " ", "c", "l", "a", "s", "s", "=", "\"", "c", "a", "r", "d", "-", "h", "e", "a", "d", "e", "r", "\"", ">">>)
     \o <<Open, Lazy(AnyChar), Close>> \o LitI(<<"<", "/", "h", "5", ">">>),
     LitI(<<"<", "d", "i", "v", " ", "c", "l", "a", "s", "s", "=", "\"", "f", "1", "6", " ", "f", "w", "-", "b", "o", "l", "d", " ", "m", "b", "-", "2", "\"", ">">>)
     \o <<Open, Lazy(AnyChar), Close>> \o LitI(<<"<", "/", "d", "i", "v", ">">>) >>

\* /<th[^>]*>字幕版本<\/th>\s*<td>([\s\S]*?)<\/td>/iu
VersionCellPatterns ==
  << LitI(<<"<", "t", "h">>) \o <<Star(NoneOf({">"}))>> \o Lit(<<">">>)
     \o Lit(<<"U+5B57", "U+5E55", "U+7248", "U+672C">>) \o LitI(<<"<", "/", "t", "h", ">">>)
     \o <<Star(One(Whitespace))>> \o LitI(<<"<", "t", "d", ">">>)
     \o <<Open, Lazy(AnyChar), Close>> \o LitI(<<"<", "/", "t", "d", ">">>) >>

\* The record of a download page, given its title and its version cell.
downloadPageWith(sid, title, versionCell) ==
  [sid |-> sid,
   title |-> title,
   fileStem |-> sanitizeFileStem(title),
   format |-> inferSubtitleFormat(versionCell \o <<"\n">> \o title)]

parseSubhdDownloadPage(html, sid) ==
  downloadPageWith(sid,
                   orElse(extractFirstText(html, PageTitlePatterns),
                          <<"s", "u", "b", "h", "d", "-">> \o sid),
                   orElse(extractFirstText(html, VersionCellPatterns), <<>>))

parseSubhdDownloadPageThrows(html) ==
  \/ extractFirstTextThrows(html, PageTitlePatterns)
  \/ extractFirstTextThrows(html, VersionCellPatterns)

----------------------------------------------------------------------------
(* request-normalization.ts, and the JavaScript primitives it relies on.   *)

\* The characters that String.prototype.localeCompare can tell apart here, in
\* the primary order of the root collation: space, punctuation, symbols,
\* digits, letters.  A letter stands for both of its cases.
CollationOrder ==
  <<" ", "_", "-", ",", ";", ":", "!", "?", ".", "'", "\"", "(", ")", "[", "]",
    "{", "}", "@", "*", "/", "\\", "&", "#", "%", "U+0060", "^", "+", "<", "=",
    ">", "|", "~", "$", "0", "1", "2", "3", "4", "5", "6", "7", "8", "9",
    "a", "b", "c", "d", "e", "f", "g", "h", "i", "j", "k", "l", "m",
    "n", "o", "p", "q", "r", "s", "t", "u", "v", "w", "x", "y", "z">>

\* The primary weight of a character; characters outside the table weigh the
\* same, above the letters.
primaryWeight(c) ==
  LET at == {i \in 1..Len(CollationOrder) : CollationOrder[i] = LowerChar(c)}
  IN IF at = {} THEN Len(CollationOrder) + 1 ELSE CHOOSE i \in at : TRUE

\* The tertiary weight: a lower-case letter sorts before its upper-case form.
tertiaryWeight(c) == IF c # LowerChar(c) THEN 1 ELSE 0

\* The comparison of two sequences of weights: -1, 0 or 1.
compareWeights(a, b) ==
  LET differ == {i \in 1..Min(Len(a), Len(b)) : a[i] # b[i]}
      first == CHOOSE i \in differ : \A j \in differ : i <= j
  IN IF differ # {} THEN (IF a[first] < b[first] THEN -1 ELSE 1)
     ELSE IF Len(a) < Len(b) THEN -1
     ELSE IF Len(a) > Len(b) THEN 1
     ELSE 0

\* String.prototype.localeCompare with the root collation: the primary weights
\* of the whole strings decide first, then the case.
localeCompare(a, b) ==
  LET primary == compareWeights([i \in 1..Len(a) |-> primaryWeight(a[i])],
                                [i \in 1..Len(b) |-> primaryWeight(b[i])])
  IN IF primary # 0 THEN primary
     ELSE compareWeights([i \in 1..Len(a) |-> tertiaryWeight(a[i])],
                         [i \in 1..Len(b) |-> tertiaryWeight(b[i])])

\* One step of a stable sort: x is inserted after the elements that do not
\* compare greater than it.  compare(left, right) is negative, zero or positive.
insertSorted(sorted, x, compare(_, _)) ==
  LET after == {i \in 1..Len(sorted) : compare(sorted[i], x) > 0}
      at == IF after = {} THEN Len(sorted) + 1
            ELSE CHOOSE i \in after : \A j \in after : i <= j
  IN SubSeq(sorted, 1, at - 1) \o <<x>> \o SubSeq(sorted, at, Len(sorted))

\* items.sort((a, b) => a.localeCompare(b)); Array.prototype.sort is stable.
RECURSIVE sortStrings(_)
sortStrings(items) ==
  IF items = <<>> THEN <<>>
  ELSE insertSorted(sortStrings(SubSeq(items, 1, Len(items) - 1)),
                    items[Len(items)], localeCompare)

\* The elements of a sequence without later duplicates (new Set(items)).
RECURSIVE distinct(_)
distinct(items) ==
  IF items = <<>> THEN <<>>
  ELSE LET init == distinct(SubSeq(items, 1, Len(items) - 1))
           x == items[Len(items)]
       IN IF \E i \in 1..Len(init) : init[i] = x THEN init ELSE Append(init, x)

\* Characters written as code points that are not letters.
NonLetterCodePoints == {"U+00A0", "U+3000", "U+0060"}

\* [\p{L}\p{N}]: the ASCII letters and digits, and every character written as
\* a code point other than the ones above (the CJK letters).
isLetterOrNumber(c) ==
  \/ c \in Alphanumerics
  \/ c \notin {AsciiChars[i] : i \in 1..Len(AsciiChars)}
               \cup Whitespace \cup NonLetterCodePoints

\* text.split(/[^\p{L}\p{N}]+/u) without its empty pieces
RECURSIVE splitWords(_)
splitWords(text) ==
  LET seps == {i \in 1..Len(text) : ~isLetterOrNumber(text[i])}
      first == CHOOSE i \in seps : \A j \in seps : i <= j
  IN IF text = <<>> THEN <<>>
     ELSE IF seps = {} THEN <<text>>
     ELSE IF first = 1 THEN splitWords(Tail(text))
     ELSE <<SubSeq(text, 1, first - 1)>> \o splitWords(SubSeq(text, first + 1, Len(text)))

tokenize(text) ==
  IF Len(trim(text)) = 0 THEN <<>>
  ELSE sortStrings(distinct(splitWords(toLowerCase(text))))

LANGUAGE_ALIAS_MAP ==
  <<
     <<<<"z", "h">>, <<"z", "h">>>>,
     <<<<"z", "h", "o">>, <<"z", "h">>>>,
     <<<<"c", "h", "i", "n", "e", "s", "e">>, <<"z", "h">>>>,
     <<<<"c", "h", "s">>, <<"z", "h", "-", "c", "n">>>>,
     <<<<"c", "h", "t">>, <<"z", "h", "-", "t", "w">>>>,
     <<<<"z", "h", "-", "c", "n">>, <<"z", "h", "-", "c", "n">>>>,
     <<<<"z", "h", "-", "h", "a", "n", "s">>, <<"z", "h", "-", "c", "n">>>>,
     <<<<"z", "h", "-", "t", "w">>, <<"z", "h", "-", "t", "w">>>>,
     <<<<"z", "h", "-", "h", "a", "n", "t">>, <<"z", "h", "-", "t", "w">>>>,
     <<<<"e", "n">>, <<"e", "n">>>>,
     <<<<"e", "n", "g">>, <<"e", "n">>>>,
     <<<<"e", "n", "g", "l", "i", "s", "h">>, <<"e", "n">>>>,
     <<<<"j", "a">>, <<"j", "a">>>>,
     <<<<"j", "p", "n">>, <<"j", "a">>>>,
     <<<<"j", "a", "p", "a", "n", "e", "s", "e">>, <<"j", "a">>>> >>

\* The values that the map object inherits from Object.prototype under keys
\* in lower case: the function Object under "constructor" and the prototype
\* object under "__proto__".  Each is written as one token that no string holds.
ObjectConstructor == <<"[Function: Object]">>

ObjectPrototype == <<"[Object: Object.prototype]">>

InheritedProperties ==
  << <<<<"c", "o", "n", "s", "t", "r", "u", "c", "t", "o", "r">>, ObjectConstructor>>,
     <<<<"_", "_", "p", "r", "o", "t", "o", "_", "_">>, ObjectPrototype>> >>

\* LANGUAGE_ALIAS_MAP[normalized]: the own property, else the inherited one,
\* else undefined (the empty set).
aliasOf(normalized, properties) ==
  LET hits == {i \in 1..Len(properties) : properties[i][1] = normalized}
  IN IF hits = {} THEN {} ELSE {properties[CHOOSE i \in hits : TRUE][2]}

languageAlias(normalized) ==
  IF aliasOf(normalized, LANGUAGE_ALIAS_MAP) # {} THEN aliasOf(normalized, LANGUAGE_ALIAS_MAP)
  ELSE aliasOf(normalized, InheritedProperties)

normalizeLanguageWith(normalized) ==
  IF Len(normalized) = 0 THEN normalized
  ELSE IF languageAlias(normalized) = {} THEN normalized
  ELSE CHOOSE v \in languageAlias(normalized) : TRUE

normalizeLanguage(value) == normalizeLanguageWith(toLowerCase(trim(value)))

\* value.trim() of a value that is no string throws a TypeError.
normalizeLanguageThrows(value) == value \in {ObjectConstructor, ObjectPrototype}

\* normalized.length > 0: the length of the function Object is 1, the
\* prototype object has none.
hasLength(normalized) ==
  IF normalized = ObjectPrototype THEN FALSE
  ELSE IF normalized = ObjectConstructor THEN TRUE
  ELSE Len(normalized) > 0

normalizeLanguages(values) ==
  distinct(SelectSeq([i \in 1..Len(values) |-> normalizeLanguage(values[i])], hasLength))

normalizeLanguagesThrows(values) ==
  \E i \in 1..Len(values) : normalizeLanguageThrows(values[i])

\* String(value), as join and the argument of localeCompare see a value.
stringOf(value) ==
  IF value = ObjectConstructor
  THEN <<"f", "u", "n", "c", "t", "i", "o", "n", " ", "O", "b", "j", "e", "c", "t", "(", ")", " ", "{", "{", " ", "[", "n", "a", "t", "i", "v", "e", " ", "c", "o", "d", "e", "]", " ", "}", "}">>
  ELSE value

stringsOf(values) == [i \in 1..Len(values) |-> stringOf(values[i])]

\* a.localeCompare of a value that is no string throws a TypeError; which
\* element a sort of two or more elements hands over as a is up to the engine.
sortMayThrow(values) ==
  /\ Len(values) >= 2
  /\ \E i \in 1..Len(values) : values[i] = ObjectConstructor

\* String(n) for a natural number
RECURSIVE numberToString(_)
numberToString(n) ==
  IF n < 10 THEN <<AsciiChars[17 + n]>>
  ELSE numberToString(n \div 10) \o <<AsciiChars[17 + (n % 10)]>>

\* String(value ?? "") for an optional number
optionalToString(value) ==
  IF value = {} THEN <<>> ELSE numberToString(CHOOSE n \in value : TRUE)

\* normalizeSubtitleRequest can throw: in normalizeLanguage, or in the sort of
\* the languages.
normalizeSubtitleRequestMayThrow(input) ==
  IF input.languages = {} THEN FALSE
  ELSE \/ normalizeLanguagesThrows(CHOOSE l \in input.languages : TRUE)
       \/ sortMayThrow(normalizeLanguages(CHOOSE l \in input.languages : TRUE))

normalizeSubtitleRequestMustThrow(input) ==
  IF input.languages = {} THEN FALSE
  ELSE normalizeLanguagesThrows(CHOOSE l \in input.languages : TRUE)

\* The input's optional members are the empty set or a singleton.
normalizeSubtitleRequest(input) ==
  LET query == collapseWhitespace(input.query)
      normalizedQuery == toLowerCase(query)
      languagePreferences ==
        normalizeLanguages(IF input.languages = {} THEN <<>>
                           ELSE CHOOSE l \in input.languages : TRUE)
      canonicalLanguages == sortStrings(stringsOf(languagePreferences))
  IN [query |-> query,
      normalizedQuery |-> normalizedQuery,
      queryTokens |-> tokenize(normalizedQuery),
      year |-> input.year,
      season |-> input.season,
      episode |-> input.episode,
      languagePreferences |-> languagePreferences,
      fingerprint |-> join(<<normalizedQuery, optionalToString(input.year),
                             optionalToString(input.season),
                             optionalToString(input.episode),
                             join(canonicalLanguages, <<",">>)>>, <<"|">>)]

----------------------------------------------------------------------------
(* subhd.ts: pure functions of the provider.                               *)

SUBHD_ID_PREFIX == <<"s", "u", "b", "h", "d", ":">>

toSubhdProviderId(sid) == SUBHD_ID_PREFIX \o sid

isAlphanumericNonEmpty(s) == Len(s) > 0

\* /^[A-Za-z0-9]+$/u
isAlphanumeric(s) ==
  /\ Len(s) > 0
  /\ \A i \in 1..Len(s) :
       \/ s[i] \in Digits
       \/ \E k \in 1..26 : s[i] = UpperChars[k] \/ s[i] = LowerChars[k]

parseSubhdProviderIdPrefixedOnly(id) ==
  LET normalized == trim(id)
      sid == sliceFrom(normalized, Len(SUBHD_ID_PREFIX))
  IN IF startsWith(normalized, SUBHD_ID_PREFIX) /\ isAlphanumeric(sid)
     THEN [ok |-> TRUE, sid |-> sid]
     ELSE [ok |-> FALSE,
           error |-> [type |-> "CliAppError",
                      code |-> "E_NOT_FOUND_RESOURCE",
                      details |-> [provider |-> "subhd", id |-> id]]]

\* parseSubhdProviderId: [ok |-> TRUE, sid] or [ok |-> FALSE, error] for the throw.
parseSubhdProviderId(id) ==
  LET normalized == trim(id)
      sid == sliceFrom(normalized, Len(SUBHD_ID_PREFIX))
  IN IF startsWith(normalized, SUBHD_ID_PREFIX) /\ isAlphanumeric(sid)
     THEN [ok |-> TRUE, sid |-> sid]
     ELSE IF isAlphanumeric(normalized)
     THEN [ok |-> TRUE, sid |-> normalized]
     ELSE [ok |-> FALSE,
           error |-> [type |-> "CliAppError",
                      code |-> "E_NOT_FOUND_RESOURCE",
                      details |-> [provider |-> "subhd", id |-> id]]]

\* resolveSubhdDownloadUrl: the empty set (undefined) or <<the URL>> in a set.
resolveSubhdDownloadUrl(baseUrl, value) ==
  IF value = {} THEN {}
  ELSE LET v == CHOOSE x \in value : TRUE
       IN IF v.kind = "blank" THEN {}
          ELSE IF v.kind = "invalid" THEN {}
          ELSE {resolveUrl(baseUrl, v)}

\* normalizeErrorMessage
normalizeErrorMessage(value) ==
  IF value = {} THEN <<>> ELSE trim(CHOOSE x \in value : TRUE)

createSubhdChallengeError(input) ==
  [type |-> "CliAppError",
   code |-> "E_UPSTREAM_BAD_RESPONSE",
   details |-> [provider |-> "subhd",
                classification |-> "anti-bot",
                url |-> input.url,
                reason |-> input.reason,
                sid |-> input.sid,
                message |-> input.message]]

\* /临时页面|验证|验证码/u
VerificationPhrases ==
  { <<"U+4E34", "U+65F6", "U+9875", "U+9762">>,
    <<"U+9A8C", "U+8BC1">>,
    <<"U+9A8C", "U+8BC1", "U+7801">> }

\* /频繁|次数|rate\s*limit|too\s*many/iu
FrequencyPatterns ==
  { <<"U+9891", "U+7E41">>,
    <<"U+6B21", "U+6570">>,
    <<"r", "a", "t", "e", "\\s*", "l", "i", "m", "i", "t">>,
    <<"t", "o", "o", "\\s*", "m", "a", "n", "y">> }

createSubhdDownloadApiError(sid, payload, url) ==
  LET message == normalizeErrorMessage(payload.msg)
  IN IF payload.success = {FALSE}
        /\ (looksLikeAntiBotChallenge(message)
            \/ \E phrase \in VerificationPhrases : includes(message, phrase))
     THEN createSubhdChallengeError([url |-> url, reason |-> "download-gate-rejected",
                                     sid |-> {sid}, message |-> {message}])
     ELSE IF payload.success = {FALSE}
             /\ \E pat \in FrequencyPatterns : RegexTest(pat, message)
     THEN [type |-> "CliAppError",
           code |-> "E_UPSTREAM_BAD_RESPONSE",
           details |-> [provider |-> "subhd", sid |-> sid, url |-> url,
                        classification |-> "rate-limit", message |-> message]]
     ELSE [type |-> "CliAppError",
           code |-> "E_UPSTREAM_BAD_RESPONSE",
           details |-> [provider |-> "subhd", sid |-> sid, url |-> url,
                        classification |-> "bad-response", payload |-> payload]]

\* `${baseUrl}down/${encodeURIComponent(sid)}`; sid is alphanumeric, so the
\* encoding leaves it as it is.
\* The code of a character of AsciiChars, or of a tab, a line feed or a
\* carriage return.
asciiCode(c) ==
  IF c = "\t" THEN 9 ELSE IF c = "\n" THEN 10 ELSE IF c = "\r" THEN 13
  ELSE 31 + CHOOSE i \in 1..Len(AsciiChars) : AsciiChars[i] = c

isAscii(c) == c \in {"\t", "\n", "\r"} \cup {AsciiChars[i] : i \in 1..Len(AsciiChars)}

\* The characters encodeURIComponent leaves alone.
UriUnreserved == Alphanumerics \cup {"-", "_", ".", "!", "~", "*", "'", "(", ")"}

\* encodeURIComponent; the escape of a character written as a code point is
\* written "%" followed by that character.
encodeURIComponent(value) ==
  join([i \in 1..Len(value) |->
          IF value[i] \in UriUnreserved THEN <<value[i]>>
          ELSE IF isAscii(value[i])
          THEN <<"%", HexDigits[(asciiCode(value[i]) \div 16) + 1],
                 HexDigits[(asciiCode(value[i]) % 16) + 1]>>
          ELSE <<"%", value[i]>>], <<>>)

padStart2Unpadded(value) == value

\* String.prototype.padStart(2, "0")
padStart2(value) == IF Len(value) >= 2 THEN value ELSE <<"0">> \o value

\* matchesRequest of subhd.ts (lines 347-369)
matchesRequest(title, request) ==
  LET normalizedTitle == toLowerCase(title)
      token(prefix, n) == <<prefix>> \o padStart2(numberToString(n))
  IN /\ \A year \in request.year : includes(normalizedTitle, numberToString(year))
     /\ \A season \in request.season : includes(normalizedTitle, token("s", season))
     /\ \A episode \in request.episode : includes(normalizedTitle, token("e", episode))

\* The URL of the search page for a query.
searchPageUrlOf(baseUrl, query) ==
  [origin |-> baseUrl.origin,
   path |-> <<<<"s", "e", "a", "r", "c", "h">>, encodeURIComponent(query)>>,
   search |-> <<>>]

\* The options of the search-page fetch (lines 72-77).
searchRequest(baseUrl, query) ==
  [pathOrUrl |-> [kind |-> "path", origin |-> "",
                  path |-> <<<<"s", "e", "a", "r", "c", "h">>, encodeURIComponent(query)>>,
                  search |-> <<>>],
   method |-> {},
   headers |-> [n \in {"accept-language"} |-> "zh-CN,zh;q=0.9,en;q=0.7"],
   body |-> {}]

\* The candidate built from a parsed card (lines 88-97).
searchResultOf(item) ==
  [id |-> toSubhdProviderId(item.sid),
   providerId |-> "subhd",
   title |-> item.title,
   language |-> item.language,
   format |-> item.format,
   downloads |-> item.downloads,
   hearingImpaired |-> item.hearingImpaired,
   releaseName |-> item.title]

\* parseSubhdSearchItems(html).filter(...).map(...) (lines 86-97)
searchResultsFrom(kept) == [i \in 1..Len(kept) |-> searchResultOf(kept[i])]

searchResultsOf(html, request) ==
  searchResultsFrom(SelectSeq(parseSubhdSearchItems(html),
                              LAMBDA item : matchesRequest(item.title, request)))

\* The options of the landing-page fetch of doctor (lines 170-175).
doctorRequest ==
  [pathOrUrl |-> [kind |-> "path", origin |-> "", path |-> <<>>, search |-> <<>>],
   method |-> {},
   headers |-> [n \in {"accept-language"} |-> "zh-CN,zh;q=0.9,en;q=0.7"],
   body |-> {}]

\* toSubhdUnknownError (lines 392-405); the name of a thrown value that is no
\* Error is undefined.
toSubhdUnknownError(error) ==
  IF error.type = "CliAppError" THEN error
  ELSE [type |-> "CliAppError",
        code |-> "E_UNKNOWN",
        details |-> [name |-> IF error.type = "Error" THEN {error.name} ELSE {}]]

downPageUrlOf(baseUrl, sid) == [origin |-> baseUrl.origin, path |-> <<<<"d", "o", "w", "n">>, sid>>, search |-> <<>>]

\* The options of the gate-page fetch (lines 105-111).
gateRequest(baseUrl, sid) ==
  [pathOrUrl |-> [kind |-> "path", origin |-> "", path |-> <<<<"d", "o", "w", "n">>, sid>>, search |-> <<>>],
   method |-> {},
   headers |-> [n \in {"referer", "accept-language"} |->
                  IF n = "referer"
                  THEN [origin |-> baseUrl.origin, path |-> <<<<"a">>, sid>>, search |-> <<>>]
                  ELSE "zh-CN,zh;q=0.9,en;q=0.7"],
   body |-> {}]

\* The options of the resolution call (lines 122-132).
apiRequest(baseUrl, sid) ==
  [pathOrUrl |-> [kind |-> "path", origin |-> "", path |-> <<<<"a", "p", "i">>, <<"s", "u", "b">>, <<"d", "o", "w", "n">>>>, search |-> <<>>],
   method |-> {"POST"},
   headers |-> [n \in {"content-type", "accept", "origin", "referer"} |->
                  CASE n = "content-type" -> "application/json"
                    [] n = "accept" -> "application/json, text/plain, */*"
                    [] n = "origin" -> baseUrl.origin
                    [] OTHER -> downPageUrlOf(baseUrl, sid)],
   body |-> {[sid |-> sid, cap |-> <<>>]}]

\* The options of the byte fetch (lines 155-160).
bytesRequest(baseUrl, sid, sourceUrl) ==
  [pathOrUrl |-> [kind |-> "absolute", origin |-> sourceUrl.origin,
                  path |-> sourceUrl.path, search |-> sourceUrl.search],
   method |-> {},
   headers |-> [n \in {"referer"} |-> downPageUrlOf(baseUrl, sid)],
   body |-> {}]

\* The text of an origin.
originText(origin) ==
  IF origin = BaseOrigin THEN <<"h", "t", "t", "p", "s", ":", "/", "/", "s", "u", "b",
                     "h", "d", ".", "t", "e", "s", "t">>
  ELSE <<"h", "t", "t", "p", "s", ":", "/", "/", "d", "l", ".", "s", "u", "b",
       "h", "d", ".", "t", "e", "s", "t">>

\* URL.prototype.pathname
pathnameOf(url) == <<"/">> \o join(url.path, <<"/">>)

\* URL.prototype.toString
urlText(url) == originText(url.origin) \o pathnameOf(url) \o url.search

\* /\.([A-Za-z0-9]{2,5})(?:$|[?#])/u as its alternatives in the order a
\* backtracking matcher tries them: the longest run first, the end of the
\* text before a delimiter.
UrlExtensionPatterns ==
  LET extension(n, tail) ==
        Lit(<<".">>) \o <<Open>> \o [i \in 1..n |-> One(Alphanumerics)] \o <<Close, tail>>
      delimiter == One({"?", "#"})
  IN << extension(5, End), extension(5, delimiter), extension(4, End),
        extension(4, delimiter), extension(3, End), extension(3, delimiter),
        extension(2, End), extension(2, delimiter) >>

\* The leftmost of the matches of the alternatives, the earlier alternative
\* winning where two start together.
leftmostOf(matches) ==
  IF \A k \in DOMAIN matches : ~matches[k].ok
  THEN [ok |-> FALSE, at |-> 0, s |-> 0, e |-> 0, group |-> <<>>]
  ELSE matches[CHOOSE k \in DOMAIN matches :
                 /\ matches[k].ok
                 /\ \A j \in DOMAIN matches :
                      matches[j].ok =>
                        \/ matches[k].at < matches[j].at
                        \/ (matches[k].at = matches[j].at /\ k <= j)]

\* RegExp.prototype.exec for a pattern given as a sequence of alternatives.
RegexExecAny(ps, t) == leftmostOf([k \in 1..Len(ps) |-> RegexExec(ps[k], t)])

extensionFormat(match) == IF ~match.ok THEN {} ELSE inferSubtitleFormat(match.group)

\* inferSubtitleFormatFromUrl (lines 318-325): the empty set is undefined.
inferSubtitleFormatFromUrl(url) ==
  extensionFormat(RegexExecAny(UrlExtensionPatterns, urlText(url)))

\* The value of a hexadecimal digit, or -1.
hexValue(c) ==
  IF \E d \in 1..16 : HexDigits[d] = toUpperCase(<<c>>)[1]
  THEN (CHOOSE d \in 1..16 : HexDigits[d] = toUpperCase(<<c>>)[1]) - 1
  ELSE -1

\* An escape at the head of s is well formed: "%" and a character written as
\* a code point, or "%" and two hexadecimal digits below 0x80.  (Every escape
\* sequence of a character outside ASCII is written the first way, so that
\* two digits from 0x80 on are a byte that is no UTF-8 sequence.)
escapeWellFormed(s) ==
  \/ Len(s) >= 2 /\ ~isAscii(s[2])
  \/ /\ Len(s) >= 3
     /\ hexValue(s[2]) \in 0..7
     /\ hexValue(s[3]) >= 0

\* decodeURIComponent throws a URIError on a malformed escape.
RECURSIVE decodeURIComponentThrows(_)
decodeURIComponentThrows(s) ==
  /\ s # <<>>
  /\ IF s[1] # "%" THEN decodeURIComponentThrows(Tail(s))
     ELSE IF ~escapeWellFormed(s) THEN TRUE
     ELSE IF ~isAscii(s[2]) THEN decodeURIComponentThrows(SubSeq(s, 3, Len(s)))
     ELSE decodeURIComponentThrows(SubSeq(s, 4, Len(s)))

\* decodeURIComponent of a text whose escapes are well formed.
RECURSIVE decodeURIComponent(_)
decodeURIComponent(s) ==
  IF s = <<>> THEN <<>>
  ELSE IF s[1] # "%" THEN <<s[1]>> \o decodeURIComponent(Tail(s))
  ELSE IF ~isAscii(s[2]) THEN <<s[2]>> \o decodeURIComponent(SubSeq(s, 3, Len(s)))
  ELSE <<fromCodePoint(hexValue(s[2]) * 16 + hexValue(s[3]))>>
       \o decodeURIComponent(SubSeq(s, 4, Len(s)))

\* The text of a subtitle format.
formatText(format) ==
  IF format = "ass" THEN <<"a", "s", "s">>
  ELSE IF format = "vtt" THEN <<"v", "t", "t">>
  ELSE <<"s", "r", "t">>

\* The path segments that are not empty (line 337).
segmentsOf(sourceUrl) == SelectSeq(sourceUrl.path, LAMBDA segment : Len(segment) > 0)

baseNameOr(segments, fileStem, format) ==
  IF segments # <<>> THEN decodeURIComponent(segments[Len(segments)])
  ELSE sanitizeFileStem(fileStem) \o <<".">> \o formatText(format)

selectFileNameUndecoded(fileStem, sourceUrl, format) ==
  IF segmentsOf(sourceUrl) # <<>> THEN segmentsOf(sourceUrl)[Len(segmentsOf(sourceUrl))]
  ELSE sanitizeFileStem(fileStem) \o <<".">> \o formatText(format)

\* selectFileName (lines 327-345)
selectFileName(fileStem, sourceUrl, format) ==
  baseNameOr(segmentsOf(sourceUrl), fileStem, format)

baseNameThrows(segments) ==
  segments # <<>> /\ decodeURIComponentThrows(segments[Len(segments)])

\* decodeURIComponent throws in selectFileName.
selectFileNameThrows(sourceUrl) == baseNameThrows(segmentsOf(sourceUrl))

\* sourceFormat ?? page.format ?? "srt" (line 140)
formatOf(sourceFormat, pageFormat) == orElse(sourceFormat, orElse(pageFormat, "srt"))

planWith(sid, page, sourceUrl, format) ==
  [id |-> toSubhdProviderId(sid),
   providerId |-> "subhd",
   fileName |-> selectFileName(page.fileStem, sourceUrl, format),
   sourceUrl |-> sourceUrl,
   format |-> format]

\* The plan that getDownloadPlan returns (lines 139-149).
planOf(sid, page, sourceUrl) ==
  planWith(sid, page, sourceUrl,
           formatOf(inferSubtitleFormatFromUrl(sourceUrl), page.format))

----------------------------------------------------------------------------
(* assrt-mock.ts: the mock catalog.                                        *)

ASSRT_MOCK_DATA ==
  <<
     [id |-> <<"a", "s", "s", "r", "t", "-", "1", "0", "0", "1">>,
      providerId |-> "assrt",
      title |->
        <<"T", "h", "e", " ", "M", "a", "t", "r", "i", "x", " ", "(", "1",
          "9", "9", "9", ")", " ", "1", "0", "8", "0", "p", " ", "B", "l",
          "u", "R", "a", "y">>,
      language |-> "en", format |-> "srt", downloads |-> 1800,
      hearingImpaired |-> {}],
     [id |-> <<"a", "s", "s", "r", "t", "-", "1", "0", "0", "2">>,
      providerId |-> "assrt",
      title |->
        <<"T", "h", "e", " ", "M", "a", "t", "r", "i", "x", " ", "(", "1",
          "9", "9", "9", ")", " ", "U+84DD", "U+5149", "U+7248">>,
      language |-> "zh-cn", format |-> "srt", downloads |-> 2100,
      hearingImpaired |-> {}],
     [id |-> <<"a", "s", "s", "r", "t", "-", "1", "0", "0", "3">>,
      providerId |-> "assrt",
      title |->
        <<"T", "h", "e", " ", "M", "a", "t", "r", "i", "x", " ", "(", "1",
          "9", "9", "9", ")", " ", "U+7E41", "U+4E2D", "U+5B57", "U+5E55">>,
      language |-> "zh-tw", format |-> "ass", downloads |-> 900,
      hearingImpaired |-> {}],
     [id |-> <<"a", "s", "s", "r", "t", "-", "2", "0", "0", "1">>,
      providerId |-> "assrt",
      title |->
        <<"I", "n", "t", "e", "r", "s", "t", "e", "l", "l", "a", "r", " ",
          "(", "2", "0", "1", "4", ")", " ", "2", "1", "6", "0", "p", " ",
          "U", "H", "D">>,
      language |-> "en", format |-> "srt", downloads |-> 1650,
      hearingImpaired |-> {}],
     [id |-> <<"a", "s", "s", "r", "t", "-", "3", "0", "0", "1">>,
      providerId |-> "assrt",
      title |->
        <<"B", "r", "e", "a", "k", "i", "n", "g", " ", "B", "a", "d", " ",
          "S", "0", "1", "E", "0", "1", " ", "P", "i", "l", "o", "t">>,
      language |-> "en", format |-> "vtt", downloads |-> 520,
      hearingImpaired |-> {TRUE}] >>

\* matchesRequest of assrt-mock.ts (lines 122-149): the year is looked for in
\* the title as it is, the season and episode tokens in the lower-cased title.
mockMatchesRequest(request, item) ==
  LET titleTokens == tokenize(item.title)
      normalizedTitle == toLowerCase(item.title)
      token(prefix, n) == <<prefix>> \o padStart2(numberToString(n))
  IN /\ \E i \in 1..Len(request.queryTokens) :
          \E j \in 1..Len(titleTokens) : request.queryTokens[i] = titleTokens[j]
     /\ \A year \in request.year : includes(item.title, numberToString(year))
     /\ \A season \in request.season : includes(normalizedTitle, token("s", season))
     /\ \A episode \in request.episode : includes(normalizedTitle, token("e", episode))

\* search of the mock catalog (lines 72-78)
mockSearch(data, request) ==
  IF Len(request.queryTokens) = 0 THEN <<>>
  ELSE SelectSeq(data, LAMBDA item : mockMatchesRequest(request, item))

\* findById (lines 151-165): the first record with the id, or the error.
findById(data, id) ==
  LET hits == SelectSeq(data, LAMBDA candidate : candidate.id = id)
  IN IF hits # <<>> THEN [ok |-> TRUE, item |-> hits[1]]
     ELSE [ok |-> FALSE,
           error |-> [type |-> "CliAppError", code |-> "E_NOT_FOUND_RESOURCE",
                      details |-> [id |-> id, provider |-> "assrt"]]]

\* safeFileStem of assrt-mock.ts (lines 167-175)
safeFileStem(title) ==
  LET replaced == [i \in 1..Len(title) |->
                     IF title[i] \in ForbiddenFileChars THEN " " ELSE title[i]]
      stem == sliceTo(trim(collapseWhitespace(replaced)), 80)
  IN IF Len(stem) > 0 THEN stem ELSE <<"s", "u", "b", "t", "i", "t", "l", "e">>

mockPlanOfFirst(data, id) ==
  LET found == findById(data, id)
  IN IF ~found.ok THEN found
     ELSE [ok |-> TRUE,
           plan |-> [id |-> data[1].id,
                     providerId |-> data[1].providerId,
                     fileName |-> safeFileStem(data[1].title) \o <<".">> \o formatText(data[1].format),
                     sourceUrl |-> <<"h", "t", "t", "p", "s", ":", "/", "/", "m", "o", "c", "k", ".", "a", "s", "s", "r", "t", ".", "n", "e", "t", "/", "s", "u", "b", "/">> \o encodeURIComponent(data[1].id),
                     format |-> data[1].format]]

\* getDownloadPlan of the mock catalog (lines 80-89)
mockPlanOf(data, id) ==
  LET found == findById(data, id)
  IN IF ~found.ok THEN found
     ELSE [ok |-> TRUE,
           plan |-> [id |-> found.item.id,
                     providerId |-> found.item.providerId,
                     fileName |-> safeFileStem(found.item.title) \o <<".">> \o formatText(found.item.format),
                     sourceUrl |-> <<"h", "t", "t", "p", "s", ":", "/", "/", "m", "o", "c", "k", ".", "a", "s", "s", "r", "t", ".", "n", "e", "t", "/", "s", "u", "b", "/">> \o encodeURIComponent(found.item.id),
                     format |-> found.item.format]]

\* new TextEncoder().encode(...) of the four joined lines (lines 93-100); the
\* text is ASCII, one byte for each character.
mockContentOf(plan) ==
  [i \in 1..Len(join(<<<<"1">>, <<"0", "0", ":", "0", "0", ":", "0", "1", ",", "0", "0", "0", " ", "-", "-", ">", " ", "0", "0", ":", "0", "0", ":", "0", "3", ",", "0", "0", "0">>,
                       <<"M", "o", "c", "k", " ", "s", "u", "b", "t", "i", "t", "l", "e", " ", "p", "a", "y", "l", "o", "a", "d", " ", "f", "r", "o", "m", " ">> \o formatText(plan.providerId)
                         \o <<" ", "f", "o", "r", " ">> \o plan.id,
                       <<>>>>, <<"\n">>)) |->
     asciiCode(join(<<<<"1">>, <<"0", "0", ":", "0", "0", ":", "0", "1", ",", "0", "0", "0", " ", "-", "-", ">", " ", "0", "0", ":", "0", "0", ":", "0", "3", ",", "0", "0", "0">>,
                      <<"M", "o", "c", "k", " ", "s", "u", "b", "t", "i", "t", "l", "e", " ", "p", "a", "y", "l", "o", "a", "d", " ", "f", "r", "o", "m", " ">> \o formatText(plan.providerId)
                        \o <<" ", "f", "o", "r", " ">> \o plan.id,
                      <<>>>>, <<"\n">>)[i])]

----------------------------------------------------------------------------
(* ranking.ts.  A score is an integer number of ten-millionths, so that     *)
(* roundScore has a seventh decimal to round away; a rounded score is an    *)
(* integer number of millionths.                                            *)

\* One unit of score before rounding, in ten-millionths.
ScoreUnit == 10000000

PROVIDER_PRIORITY_BOOST == [subhd |-> 12, assrt |-> 4]

\* The characters of a catalog id, for localeCompare.
providerIdText(providerId) ==
  IF providerId = "subhd" THEN <<"s", "u", "b", "h", "d">>
  ELSE IF providerId = "assrt" THEN <<"a", "s", "s", "r", "t">>
  ELSE <<>>

\* The characters of a language code that a candidate carries.
languageText(language) ==
  IF language = "en" THEN <<"e", "n">>
  ELSE IF language = "zh-cn" THEN <<"z", "h", "-", "c", "n">>
  ELSE IF language = "zh-tw" THEN <<"z", "h", "-", "t", "w">>
  ELSE <<"z", "h">>

\* { ...record, ...more }
spread(record, more) ==
  [k \in DOMAIN record \cup DOMAIN more |->
     IF k \in DOMAIN more THEN more[k] ELSE record[k]]

\* Math.log10(downloads + 1) * 5 in ten-millionths, for the download counts
\* below 999 that the candidates of the model carry.
Log10Times5 ==
  [d \in {0, 9, 99, 520, 900} |->
     IF d = 0 THEN 0
     ELSE IF d = 9 THEN 50000000
     ELSE IF d = 99 THEN 100000000
     ELSE IF d = 520 THEN 135841886
     ELSE 147736240]

\* Math.min(15, Math.log10(downloads + 1) * 5): the logarithm reaches 3 at
\* downloads = 999.
downloadBoost(downloads) ==
  IF downloads >= 999 THEN 15 * ScoreUnit ELSE Log10Times5[downloads]

\* roundScore: Number(value.toFixed(6)), from ten-millionths to millionths.
roundScore(value) == (value + 5) \div 10

\* value.toFixed(3) of a number of ten-millionths, in thousandths.
toFixed3(value) == (value + 5000) \div 10000

\* The query tokens that are among the title tokens (lines 51-54).
overlapCount(queryTokens, titleTokens) ==
  Cardinality({i \in 1..Len(queryTokens) :
                 \E j \in 1..Len(titleTokens) : titleTokens[j] = queryTokens[i]})

\* overlapCount / request.queryTokens.length, in ten-millionths; the division
\* is exact for the token counts that divide ten million (1, 2, 4, 5, 8, ...).
overlapRatio(request, candidate) ==
  (overlapCount(request.queryTokens, tokenize(candidate.title)) * ScoreUnit)
    \div Len(request.queryTokens)

\* request.languagePreferences.findIndex(item => item === candidate.language)
preferredIndex(languagePreferences, language) ==
  LET at == {i \in 1..Len(languagePreferences) :
               languagePreferences[i] = languageText(language)}
  IN IF at = {} THEN -1 ELSE Least(at) - 1

\* The language contribution with one amount for every preferred language.
languageScoreAnyPreferred(index, languagePreferences) ==
  IF index >= 0 THEN 30
  ELSE IF Len(languagePreferences) > 0 THEN -10
  ELSE 0

\* The language contribution (lines 65-74).
languageScoreAt(index, languagePreferences) ==
  IF index = 0 THEN 30
  ELSE IF index > 0 THEN 20
  ELSE IF Len(languagePreferences) > 0 THEN -10
  ELSE 0

languageReasonAt(index, languagePreferences) ==
  IF index = 0 THEN <<[text |-> "lang:primary"]>>
  ELSE IF index > 0 THEN <<[text |-> "lang:secondary"]>>
  ELSE IF Len(languagePreferences) > 0 THEN <<[text |-> "lang:mismatch"]>>
  ELSE <<>>

\* PROVIDER_PRIORITY_BOOST[candidate.providerId] ?? 0
providerBoostOf(providerId) ==
  IF providerId \in DOMAIN PROVIDER_PRIORITY_BOOST
  THEN PROVIDER_PRIORITY_BOOST[providerId] ELSE 0

\* The format contribution (lines 86-95).
formatScore(format) ==
  IF format = "srt" THEN 8 ELSE IF format = "ass" THEN 5 ELSE 4

formatReason(format) ==
  IF format = "srt" THEN [text |-> "format:srt"]
  ELSE IF format = "ass" THEN [text |-> "format:ass"]
  ELSE [text |-> "format:vtt"]

\* if (candidate.hearingImpaired): the field is optional.
isHearingImpaired(candidate) ==
  IF "hearingImpaired" \in DOMAIN candidate THEN candidate.hearingImpaired = {TRUE}
  ELSE FALSE

\* The score before rounding (lines 48, 59, 68-73, 78, 82-83, 87-94, 98).
scoreOf(request, candidate) ==
  (IF Len(request.queryTokens) > 0 THEN overlapRatio(request, candidate) * 60 ELSE 0)
  + languageScoreAt(preferredIndex(request.languagePreferences, candidate.language),
                    request.languagePreferences) * ScoreUnit
  + providerBoostOf(candidate.providerId) * ScoreUnit
  + downloadBoost(candidate.downloads)
  + formatScore(candidate.format) * ScoreUnit
  + (IF isHearingImpaired(candidate) THEN -2 * ScoreUnit ELSE 0)

\* The reasons in the order they are pushed; a number printed with toFixed(3)
\* is kept in thousandths.
reasonsOf(request, candidate) ==
  (IF Len(request.queryTokens) > 0
   THEN <<[text |-> "query-overlap:", fixed |-> toFixed3(overlapRatio(request, candidate))]>>
   ELSE <<>>)
  \o languageReasonAt(preferredIndex(request.languagePreferences, candidate.language),
                      request.languagePreferences)
  \o (IF providerBoostOf(candidate.providerId) # 0
      THEN <<[text |-> "provider:", providerId |-> candidate.providerId,
              fixed |-> toFixed3(providerBoostOf(candidate.providerId) * ScoreUnit)]>>
      ELSE <<>>)
  \o <<[text |-> "downloads:+", fixed |-> toFixed3(downloadBoost(candidate.downloads))]>>
  \o <<formatReason(candidate.format)>>
  \o (IF isHearingImpaired(candidate) THEN <<[text |-> "hi:-2"]>> ELSE <<>>)

scoreSubtitleCandidate(request, candidate) ==
  spread(candidate, [score |-> roundScore(scoreOf(request, candidate)),
                     reasons |-> reasonsOf(request, candidate)])

\* The comparator without its last level.
byProviderThenInput(providerOrder, left, right) == providerOrder

\* The last two levels of the comparator (lines 29-34).
byProviderThenId(providerOrder, left, right) ==
  IF providerOrder # 0 THEN providerOrder ELSE localeCompare(left.id, right.id)

\* The comparator without its download level.
compareScoredIgnoringDownloads(left, right) ==
  IF right.score # left.score THEN right.score - left.score
  ELSE byProviderThenId(localeCompare(providerIdText(left.providerId),
                                      providerIdText(right.providerId)),
                        left, right)

\* The comparator handed to sort (lines 20-35).
compareScored(left, right) ==
  IF right.score # left.score THEN right.score - left.score
  ELSE IF right.downloads # left.downloads THEN right.downloads - left.downloads
  ELSE byProviderThenId(localeCompare(providerIdText(left.providerId),
                                      providerIdText(right.providerId)),
                        left, right)

\* scored.sort(...); Array.prototype.sort is stable.
RECURSIVE sortScored(_)
sortScored(scored) ==
  IF scored = <<>> THEN <<>>
  ELSE insertSorted(sortScored(SubSeq(scored, 1, Len(scored) - 1)),
                    scored[Len(scored)], compareScored)

\* scored.slice(0, limit): a negative limit counts from the end.
sliceLimit(scored, limit) ==
  IF limit >= 0 THEN SubSeq(scored, 1, Min(limit, Len(scored)))
  ELSE SubSeq(scored, 1, Max(Len(scored) + limit, 0))

\* The ranks counted from zero.
withRanksFromZero(items) == [i \in 1..Len(items) |-> spread(items[i], [rank |-> i - 1])]

\* .map((item, index) => ({ ...item, rank: index + 1 }))
withRanks(items) == [i \in 1..Len(items) |-> spread(items[i], [rank |-> i])]

scoredOf(request, candidates) ==
  [i \in 1..Len(candidates) |-> scoreSubtitleCandidate(request, candidates[i])]

\* rankSubtitleCandidates; limit is {} when the caller leaves it out.
rankSubtitleCandidates(request, candidates, limit) ==
  withRanks(sliceLimit(sortScored(scoredOf(request, candidates)),
                       IF limit = {} THEN Len(candidates)
                       ELSE CHOOSE n \in limit : TRUE))

----------------------------------------------------------------------------
(* The catalog scenario: what the callers of search, getDownloadPlan,      *)
(* downloadSubtitle and doctor pass, and the documents the upstream serves. *)

\* A card of a search page: the marker, the title link and what follows it.
CardHtml(link, title, rest) ==
  SUBHD_CARD_MARKER \o link \o title \o <<"<", "/", "a", ">">> \o rest

TitleLink(sid) ==
  <<"<", "a", " ", "c", "l", "a", "s", "s", "=", "\"", "l", "i", "n", "k",
    "-", "d", "a", "r", "k", " ", "a", "l", "i", "g", "n", "-", "m", "i", "d",
    "d", "l", "e", "\"", " ", "h", "r", "e", "f", "=", "\"", "/", "a", "/">>
  \o sid \o <<"\"", ">">>

TitleLinkWithoutId ==
  <<"<", "a", " ", "c", "l", "a", "s", "s", "=", "\"", "l", "i", "n", "k",
    "-", "d", "a", "r", "k", " ", "a", "l", "i", "g", "n", "-", "m", "i", "d",
    "d", "l", "e", "\"", ">">>

LanguageLine(text) ==
  <<"<", "d", "i", "v", " ", "c", "l", "a", "s", "s", "=", "\"", "t", "e",
    "x", "t", "-", "t", "r", "u", "n", "c", "a", "t", "e", " ", "p", "y", "-",
    "2", " ", "f", "1", "1", "\"", ">">>
  \o text \o <<"<", "/", "d", "i", "v", ">">>

\* Four cards: an identifier, no identifier, another identifier, the first again.
SearchPageCards ==
  <<"<", "h", "t", "m", "l", ">">>
  \o CardHtml(TitleLink(<<"x", "D", "0">>),
             <<"T", "h", "e", ".", "M", "a", "t", "r", "i", "x", ".", "1", "9", "9", "9", ".", "S", "0", "1", "E", "0", "2">>,
             LanguageLine(<<"U+7B80", "U+4F53", " ", "A", "S", "S">>)
             \o <<"<", "i", " ", "c", "l", "a", "s", "s", "=", "\"", "b", "i", " ", "b", "i", "-", "d", "o", "w", "n", "l", "o", "a", "d", "\"", ">", "<", "/", "i", ">", "<", "s", "p", "a", "n", ">", " ", "1", ",", "2", "4", "7", " ", "<", "/", "s", "p", "a", "n", ">">>)
  \o CardHtml(TitleLinkWithoutId,
             <<"N", "o", " ", "i", "d", " ", "1", "9", "9", "9", " ", "S", "0", "1", "E", "0", "2">>,
             LanguageLine(<<"U+82F1", "U+6587">>)
             \o <<"U+4E0B", "U+8F7D", " ", "9">>)
  \o CardHtml(TitleLink(<<"M", "W", "F">>),
             <<"S", "h", "o", "w", " ", "S", "0", "1", "E", "0", "2", " ", "&", "a", "m", "p", ";", " ", "2", "0", "0", "3">>,
             LanguageLine(<<"U+7E41", "U+4F53">>)
             \o <<"U+4E0B", "U+8F7D", ":", " ", "5", "2">>)
  \o CardHtml(TitleLink(<<"x", "D", "0">>),
             <<"M", "a", "t", "r", "i", "x", " ", "1", "9", "9", "9", " ", "R", "e", "l", "o", "a", "d", "e", "d">>,
             LanguageLine(<<"E", "n", "g", "l", "i", "s", "h", " ", "S", "D", "H", " ", "V", "T", "T">>)
             \o <<>>)

\* An anti-bot signature and a card that parses.
SearchPageChallenge ==
  <<"<", "t", "i", "t", "l", "e", ">", "C", "a", "p", "t", "c", "h", "a", "<", "/", "t", "i", "t", "l", "e", ">">>
  \o CardHtml(TitleLink(<<"x", "D", "0">>),
             <<"T", "h", "e", ".", "M", "a", "t", "r", "i", "x", ".", "1", "9", "9", "9", ".", "S", "0", "1", "E", "0", "2">>,
             LanguageLine(<<"U+7B80", "U+4F53", " ", "A", "S", "S">>)
             \o <<"U+4E0B", "U+8F7D", " ", "3">>)

SearchPageNoCards ==
  <<"<", "h", "t", "m", "l", ">", "<", "b", "o", "d", "y", ">", "0", " ", "r",
    "e", "s", "u", "l", "t", "s", "<", "/", "b", "o", "d", "y", ">", "<", "/",
    "h", "t", "m", "l", ">">>

\* A card whose title holds a character reference above 0x10FFFF.
SearchPageBadReference ==
  <<"<", "h", "t", "m", "l", ">">>
  \o CardHtml(TitleLink(<<"q", "7">>),
             <<"M", "a", "t", "r", "i", "x", " ", "1", "9", "9", "9", " ", "&", "#", "1", "1", "1", "4", "1", "1", "2", ";">>,
             LanguageLine(<<>>)
             \o <<>>)

\* Gate pages: one with a title and a format hint, one whose title holds a
\* character reference above 0x10FFFF, and that one behind a challenge script.
GatePageTitled ==
  <<"<", "h", "5", " ", "c", "l", "a", "s", "s", "=", "\"", "c", "a", "r",
    "d", "-", "h", "e", "a", "d", "e", "r", "\"", ">", "T", "h", "e", ":",
    " ", "M", "a", "t", "r", "i", "x", " ", "&", "a", "m", "p", ";", " ", "1",
    "9", "9", "9", "<", "/", "h", "5", ">", "<", "t", "a", "b", "l", "e", ">",
    "<", "t", "r", ">", "<", "t", "h", " ", "s", "c", "o", "p", "e", "=",
    "\"", "r", "o", "w", "\"", ">", "U+5B57", "U+5E55", "U+7248", "U+672C",
    "<", "/", "t", "h", ">", " ", "<", "t", "d", ">", "W", "E", "B", "-", "D",
    "L", " ", "A", "S", "S", "<", "/", "t", "d", ">", "<", "/", "t", "r", ">",
    "<", "/", "t", "a", "b", "l", "e", ">">>

GatePageBadReference ==
  <<"<", "h", "5", " ", "c", "l", "a", "s", "s", "=", "\"", "c", "a", "r",
    "d", "-", "h", "e", "a", "d", "e", "r", "\"", ">", "M", "a", "t", "r",
    "i", "x", " ", "&", "#", "1", "1", "1", "4", "1", "1", "2", ";", "<", "/",
    "h", "5", ">">>

GatePageChallenge == GatePageBadReference \o ChallengeHtml

LandingPage ==
  <<"<", "h", "t", "m", "l", ">", "<", "t", "i", "t", "l", "e", ">", "S", "u",
    "b", "H", "D", "<", "/", "t", "i", "t", "l", "e", ">", "<", "/", "h", "t",
    "m", "l", ">">>

LandingChallenge ==
  <<"<", "h", "t", "m", "l", ">", "A", "t", "t", "e", "n", "t", "i", "o", "n",
    " ", "R", "e", "q", "u", "i", "r", "e", "d", "!", " ", "|", " ", "C", "l",
    "o", "u", "d", "f", "l", "a", "r", "e", "<", "/", "h", "t", "m", "l",
    ">">>


\* The inputs of normalization behind the search requests.
SearchInputs ==
  { [query |-> <<"T", "h", "e", " ", " ", "M", "a", "t", "r", "i", "x">>, year |-> {1999}, season |-> {},
     episode |-> {}, languages |-> {}],
    [query |-> <<" ", "!", "?", " ">>, year |-> {}, season |-> {}, episode |-> {},
     languages |-> {}],
    [query |-> <<"S", "h", "o", "w">>, year |-> {}, season |-> {1}, episode |-> {2},
     languages |-> {}],
    [query |-> <<"m", "a", "t", "r", "i", "x">>, year |-> {}, season |-> {}, episode |-> {},
     languages |-> {}] }

\* The requests search is called with: normalized requests.
SearchRequests == {normalizeSubtitleRequest(input) : input \in SearchInputs}

\* Bodies of 2xx responses read as text, by scenario and by what was asked for.
TextBodies(scn, options) ==
  IF scn = "provider" THEN {PageHtml, ChallengeHtml}
  ELSE IF scn # "catalog" THEN {PageHtml}
  ELSE LET path == options.pathOrUrl.path
       IN IF path = <<>> THEN {LandingPage, LandingChallenge}
          ELSE IF path[1] = <<"s", "e", "a", "r", "c", "h">>
          THEN {SearchPageCards, SearchPageChallenge, SearchPageNoCards,
                SearchPageBadReference}
          ELSE {PageHtml, GatePageTitled, GatePageChallenge, GatePageBadReference}

----------------------------------------------------------------------------
(* The state of one UpstreamClient and of the call in progress on it.      *)

VARIABLES
  cfg,          \* the client's readonly fields, set by the constructor
  cookieJar,    \* this.cookieJar
  pc,           \* where the call in progress stands
  cur,          \* the call in progress: [method, options, url, maxAttempts]
  attempt,      \* request()'s local counter
  timers,       \* timeout timers set and not yet cleared
  sent,         \* <<the latest request handed to the transport>>, or <<>>
  ntransport,   \* transport calls made by the request() in progress
  response,     \* the non-2xx response whose body is being read
  last,         \* what the transport did in its latest call
  sleeps,       \* the durations slept by the request() in progress
  outcome,      \* how the call in progress ended
  calls,        \* [method, url, attempt] of every transport call of the top-level call
  ncalls,       \* top-level calls made so far
  scenario,     \* which input domains the environment draws from
  pop,          \* the provider operation in progress
  fin,          \* the arguments of a pure function applied on its own
  fout,         \* its result, once applied
  ghostJar      \* history: the name-value pairs the Set-Cookie fields received on
                \* the base origin stand for, as a set of <<name, value>>

clientVars ==
  <<cfg, cookieJar, pc, cur, attempt, timers, sent, ntransport, response, last,
    sleeps, outcome, calls, ncalls>>

pureVars == <<fin, fout>>

fixed == <<cfg, scenario, pureVars>>

quiet == <<fixed, ghostJar>>

\* The constructor (lines 45-63); fetchImpl is the environment of the model.
UpstreamClient(options) ==
  [providerId |-> options.providerId,
   baseUrl |-> options.baseUrl,
   timeoutMs |-> normalizePositiveInt(options.timeoutMs, DefaultTimeoutMs),
   retries |-> normalizeNonNegativeInt(options.retries, DefaultRetries),
   backoffMs |-> normalizePositiveInt(options.backoffMs, DefaultBackoffMs),
   maxBackoffMs |-> normalizePositiveInt(options.maxBackoffMs, DefaultMaxBackoffMs),
   userAgent |-> options.userAgent,
   baseOrigin |-> options.baseUrl.origin]

maxAttemptsOffByOne(retries) == retries + 2

clearTimeoutUnlessThrown(pending, exit) == IF exit = "failure" THEN pending ELSE pending - 1

\* finally { clearTimeout(timeout) } (lines 169-171): the pending timers after
\* the transport call has left by this exit.
clearTimeout(pending, exit) == pending - 1

invalidJsonErrorAsNetwork(providerId, url, reason) ==
  [type |-> "CliAppError",
   code |-> "E_UPSTREAM_NETWORK",
   details |-> [provider |-> providerId, url |-> url, reason |-> reason]]

\* The error requestJson throws when response.json() fails (lines 76-87).
invalidJsonError(providerId, url, reason) ==
  [type |-> "CliAppError",
   code |-> "E_UPSTREAM_BAD_RESPONSE",
   details |-> [provider |-> providerId,
                url |-> url,
                classification |-> "bad-response",
                reason |-> reason]]

\* const maxAttempts = this.retries + 1  (line 101)
maxAttemptsOf(retries) == retries + 1

NoCall == [method |-> "none"]

IdleInit(scn) ==
  /\ scenario = scn
  /\ \E options \in ClientOptions(scn) : cfg = UpstreamClient(options)
  /\ cookieJar = <<>>
  /\ pc = "idle"
  /\ cur = NoCall
  /\ attempt = 0
  /\ timers = 0
  /\ sent = <<>>
  /\ ntransport = 0
  /\ response = [status |-> 0]
  /\ last = [kind |-> "none"]
  /\ sleeps = <<>>
  /\ outcome = [state |-> "none"]
  /\ calls = <<>>
  /\ ncalls = 0
  /\ pop = [name |-> "none", stage |-> "idle"]
  /\ ghostJar = {}

ClientInit(scn) ==
  /\ IdleInit(scn)
  /\ fin = [fn |-> "none"]
  /\ fout = "none"

\* The prologue of request() (lines 100-102), entered from a wrapper or directly.
StartRequest(method, options) ==
  /\ cur' = [method |-> method,
             options |-> options,
             url |-> resolveUrl(cfg.baseUrl, options.pathOrUrl),
             maxAttempts |-> maxAttemptsOf(cfg.retries)]
  /\ attempt' = 0
  /\ pc' = "loop"
  /\ sent' = <<>>
  /\ ntransport' = 0
  /\ sleeps' = <<>>
  /\ outcome' = [state |-> "none"]
  /\ UNCHANGED <<quiet, cookieJar, timers, response, last>>

Return(value) ==
  /\ pc' = "done"
  /\ outcome' = [state |-> "returned", value |-> value]
  /\ UNCHANGED sleeps

Raise(error) ==
  /\ pc' = "done"
  /\ outcome' = [state |-> "raised", error |-> error]
  /\ UNCHANGED sleeps

\* await this.sleep(computeBackoff(...)); continue  (lines 119-120, 130-131)
Backoff ==
  /\ sleeps' = Append(sleeps, computeBackoff(cfg.backoffMs, cfg.maxBackoffMs, attempt))
  /\ pc' = "sleeping"
  /\ UNCHANGED outcome

retryResponseAnyStatus(att, maxAttempts, status) == att < maxAttempts

\* Whether the loop goes on after a response with this status (line 118).
retryResponse(att, maxAttempts, status) ==
  att < maxAttempts /\ status \in RETRYABLE_STATUS

\* Whether the loop goes on after this mapped error (lines 126-129).
retryError(att, maxAttempts, mapped) ==
  att < maxAttempts
  /\ (mapped.code = "E_UPSTREAM_NETWORK" \/ mapped.code = "E_UPSTREAM_TIMEOUT")

\* The catch block of request() (lines 124-135).
Catch(error) ==
  LET mapped == mapFetchError(error, cfg.providerId, cur.url, cfg.timeoutMs)
  IN IF retryError(attempt, cur.maxAttempts, mapped) THEN Backoff ELSE Raise(mapped)

\* A user of the bare client calls one of its four public methods.
CallDirect ==
  /\ pc \in {"idle", "done"}
  /\ ncalls < CallLimit(scenario)
  /\ \E c \in DirectCalls(scenario) : StartRequest(c[1], c[2])
  /\ ncalls' = ncalls + 1
  /\ calls' = <<>>
  /\ UNCHANGED pop

\* The loop head and fetchWithTimeout up to the transport call (lines 104-108,
\* 148-168); line 138 is reached when the loop ends without a result.
BeginAttempt ==
  /\ pc = "loop"
  /\ IF attempt < cur.maxAttempts
     THEN LET method == IF cur.options.method = {} THEN "GET"
                        ELSE CHOOSE m \in cur.options.method : TRUE
              headers == requestHeaders(cur.options, cfg.userAgent, cookieJar,
                                        cfg.baseOrigin, cur.url)
          IN /\ attempt' = attempt + 1
             /\ timers' = timers + 1
             /\ sent' = <<[url |-> cur.url, method |-> method, headers |-> headers,
                          body |-> cur.options.body]>>
             /\ ntransport' = ntransport + 1
             /\ calls' = Append(calls, [method |-> method, url |-> cur.url,
                                        attempt |-> attempt + 1])
             /\ pc' = "inflight"
             /\ UNCHANGED outcome
     ELSE /\ pc' = "done"
          /\ outcome' = [state |-> "raised",
                         error |-> [type |-> "CliAppError", code |-> "E_UNKNOWN",
                                    details |-> [provider |-> cfg.providerId,
                                                 url |-> cur.url]]]
          /\ UNCHANGED <<attempt, timers, sent, ntransport, calls>>
  /\ UNCHANGED <<quiet, pop, cookieJar, cur, response, last, sleeps, ncalls>>

\* The transport resolves with a response: the timer is cleared, the cookies are
\* merged, a 2xx response is returned (lines 109-113, 169-171).
TransportResponds ==
  /\ pc = "inflight"
  /\ \E status \in Statuses(scenario), headers \in ResponseHeaders(scenario) :
       /\ timers' = clearTimeout(timers, "success")
       /\ cookieJar' = mergeResponseCookies(cookieJar, cfg.baseOrigin, cur.url, headers)
       /\ last' = [kind |-> "response", setCookie |-> headers.setCookie,
                    read |-> readSetCookieHeaders(headers)]
       /\ ghostJar' = IF cur.url.origin = cfg.baseOrigin
                      THEN SetCookiesApplied(ghostJar, headers.setCookie)
                      ELSE ghostJar
       /\ response' = [status |-> status]
       /\ IF status \in 200..299
          THEN IF cur.method = "request"
               THEN Return([status |-> status])
               ELSE pc' = "body" /\ UNCHANGED <<outcome, sleeps>>
          ELSE pc' = "snippet" /\ UNCHANGED <<outcome, sleeps>>
  /\ UNCHANGED <<fixed, pop, cur, attempt, sent, ntransport, calls, ncalls>>

\* The transport call throws by itself (lines 124-135, 169-171).
TransportFails ==
  /\ pc = "inflight"
  /\ \E error \in TransportErrors(scenario) :
       /\ last' = [kind |-> "throw", error |-> error]
       /\ Catch(error)
  /\ timers' = clearTimeout(timers, "failure")
  /\ UNCHANGED <<quiet, pop, cookieJar, cur, attempt, sent, ntransport, response, calls,
                 ncalls>>

\* The timer fires: controller.abort() makes the transport throw an AbortError.
TimerFires ==
  /\ pc = "inflight"
  /\ timers > 0
  /\ last' = [kind |-> "abort"]
  /\ Catch(AbortError)
  /\ timers' = clearTimeout(timers, "timeout")
  /\ UNCHANGED <<quiet, pop, cookieJar, cur, attempt, sent, ntransport, response, calls,
                 ncalls>>

\* readSnippet settles (a body that fails gives ""), the response is classified
\* and retried or thrown; the throw passes through the catch block (lines 115-123).
SnippetRead ==
  /\ pc = "snippet"
  /\ \E snippet \in {snippetOf(text) : text \in ErrorBodies(scenario)} \cup {<<>>} :
       LET classified == classifyResponseError(cfg.providerId, cur.url,
                                               response.status, snippet)
       IN IF retryResponse(attempt, cur.maxAttempts, response.status)
          THEN Backoff
          ELSE Catch(classified)
  /\ UNCHANGED <<quiet, pop, cookieJar, cur, attempt, timers, sent, ntransport,
                 response, last, calls, ncalls>>

\* The sleep between two attempts ends.
SleepDone ==
  /\ pc = "sleeping"
  /\ pc' = "loop"
  /\ UNCHANGED <<quiet, pop, cookieJar, cur, attempt, timers, sent, ntransport,
                 response, last, sleeps, outcome, calls, ncalls>>

\* requestText / requestJson / requestBinary: the body of the 2xx response arrives
\* (lines 67, 75, 95-96).
BodyArrives ==
  /\ pc = "body"
  /\ CASE cur.method = "requestText" -> \E text \in TextBodies(scenario, cur.options) : Return(text)
       [] cur.method = "requestJson" ->
            \E body \in JsonBodies(scenario) :
              IF body.valid THEN Return(body.value)
              ELSE Raise(invalidJsonError(cfg.providerId,
                                          resolveUrl(cfg.baseUrl, cur.options.pathOrUrl),
                                          body.message))
       [] OTHER -> \E bytes \in BinaryBodies : Return(bytes)
  /\ UNCHANGED <<quiet, pop, cookieJar, cur, attempt, timers, sent, ntransport,
                 response, last, calls, ncalls>>

\* The body stream of the 2xx response fails: requestJson classifies the error,
\* requestText and requestBinary let it through (lines 67, 76-88, 95).
BodyFails ==
  /\ pc = "body"
  /\ IF cur.method = "requestJson"
     THEN Raise(invalidJsonError(cfg.providerId,
                                 resolveUrl(cfg.baseUrl, cur.options.pathOrUrl),
                                 BodyError.message))
     ELSE Raise(BodyError)
  /\ UNCHANGED <<quiet, pop, cookieJar, cur, attempt, timers, sent, ntransport,
                 response, last, calls, ncalls>>

----------------------------------------------------------------------------
(* subhd.ts: getDownloadPlan and downloadSubtitle on the provider's own    *)
(* client.  pop is [name, stage, id, sid] and, once the operation ended,   *)
(* its plan, payload or error.                                             *)

ProviderIdle == pop.stage \in {"idle", "returned", "raised"}

\* The operation rejects with this error.
ProviderRaise(error) ==
  pop' = [name |-> pop.name, id |-> pop.id, sid |-> pop.sid,
          stage |-> "raised", error |-> error]

\* Entry of getDownloadPlan, directly or from downloadSubtitle (lines 100-111,
\* 153): the id is parsed, then the gate page is requested.
EnterGetDownloadPlan(name, id) ==
  LET parsed == parseSubhdProviderId(id)
  IN /\ ProviderIdle
     /\ pc \in {"idle", "done"}
     /\ ncalls < CallLimit(scenario)
     /\ ncalls' = ncalls + 1
     /\ calls' = <<>>
     /\ IF parsed.ok
        THEN /\ pop' = [name |-> name, id |-> id, sid |-> parsed.sid, stage |-> "gate"]
             /\ StartRequest("requestText", gateRequest(BaseUrl, parsed.sid))
        ELSE /\ pop' = [name |-> name, id |-> id, sid |-> <<>>,
                        stage |-> "raised", error |-> parsed.error]
             /\ UNCHANGED <<quiet, cookieJar, pc, cur, attempt, timers, sent, ntransport,
                            response, last, sleeps, outcome>>

CallGetDownloadPlan == \E id \in ProviderIds : EnterGetDownloadPlan("getDownloadPlan", id)

CallDownloadSubtitle == \E id \in ProviderIds : EnterGetDownloadPlan("downloadSubtitle", id)

\* requestText of the gate page settled (lines 105-132).  The parser throws a
\* RangeError on a character reference above 0x10FFFF.
GateDone ==
  /\ pop.stage = "gate"
  /\ pc = "done"
  /\ IF outcome.state = "raised"
     THEN /\ ProviderRaise(outcome.error)
          /\ UNCHANGED <<quiet, cookieJar, pc, cur, attempt, timers, sent, ntransport,
                         response, last, sleeps, outcome>>
     ELSE IF looksLikeAntiBotChallenge(outcome.value)
     THEN /\ ProviderRaise(createSubhdChallengeError(
                             [url |-> downPageUrlOf(BaseUrl, pop.sid),
                              reason |-> "download-gate-challenge",
                              sid |-> {}, message |-> {}]))
          /\ UNCHANGED <<quiet, cookieJar, pc, cur, attempt, timers, sent, ntransport,
                         response, last, sleeps, outcome>>
     ELSE IF parseSubhdDownloadPageThrows(outcome.value)
     THEN /\ ProviderRaise([type |-> "Error", name |-> "RangeError",
                            message |-> "Invalid code point"])
          /\ UNCHANGED <<quiet, cookieJar, pc, cur, attempt, timers, sent, ntransport,
                         response, last, sleeps, outcome>>
     ELSE /\ pop' = [name |-> pop.name, id |-> pop.id, sid |-> pop.sid, stage |-> "api",
                     page |-> parseSubhdDownloadPage(outcome.value, pop.sid)]
          /\ StartRequest("requestJson", apiRequest(BaseUrl, pop.sid))
  /\ UNCHANGED <<calls, ncalls>>

\* requestJson of the resolution call settled (lines 134-150, 153-160).  Reading
\* a member of a null payload throws a TypeError, and decodeURIComponent a
\* URIError on a malformed escape in the last path segment.
ApiDone ==
  /\ pop.stage = "api"
  /\ pc = "done"
  /\ IF outcome.state = "raised"
     THEN /\ ProviderRaise(outcome.error)
          /\ UNCHANGED <<quiet, cookieJar, pc, cur, attempt, timers, sent, ntransport,
                         response, last, sleeps, outcome>>
     ELSE IF outcome.value.kind = "null"
     THEN /\ ProviderRaise([type |-> "Error", name |-> "TypeError",
                            message |-> "Cannot read properties of null"])
          /\ UNCHANGED <<quiet, cookieJar, pc, cur, attempt, timers, sent, ntransport,
                         response, last, sleeps, outcome>>
     ELSE LET apiPayload == outcome.value
              sourceUrl == resolveSubhdDownloadUrl(BaseUrl, apiPayload.url)
              plan == planOf(pop.sid, pop.page, CHOOSE u \in sourceUrl : TRUE)
          IN IF sourceUrl = {} \/ apiPayload.success # {TRUE} \/ apiPayload.pass # {TRUE}
             THEN /\ ProviderRaise(createSubhdDownloadApiError(
                                     pop.sid, apiPayload,
                                     downPageUrlOf(BaseUrl, pop.sid)))
                  /\ UNCHANGED <<quiet, cookieJar, pc, cur, attempt, timers, sent,
                                 ntransport, response, last, sleeps, outcome>>
             ELSE IF selectFileNameThrows(CHOOSE u \in sourceUrl : TRUE)
             THEN /\ ProviderRaise([type |-> "Error", name |-> "URIError",
                                    message |-> "URI malformed"])
                  /\ UNCHANGED <<quiet, cookieJar, pc, cur, attempt, timers, sent,
                                 ntransport, response, last, sleeps, outcome>>
             ELSE IF pop.name = "getDownloadPlan"
             THEN /\ pop' = [name |-> pop.name, id |-> pop.id, sid |-> pop.sid,
                             stage |-> "returned", plan |-> plan]
                  /\ UNCHANGED <<quiet, cookieJar, pc, cur, attempt, timers, sent,
                                 ntransport, response, last, sleeps, outcome>>
             ELSE /\ pop' = [name |-> pop.name, id |-> pop.id,
                             sid |-> parseSubhdProviderId(plan.id).sid,
                             stage |-> "bytes", plan |-> plan]
                  /\ StartRequest("requestBinary",
                                  bytesRequest(BaseUrl, parseSubhdProviderId(plan.id).sid,
                                               plan.sourceUrl))
  /\ UNCHANGED <<calls, ncalls>>

\* requestBinary of the resolved URL settled (lines 155-165).
BytesDone ==
  /\ pop.stage = "bytes"
  /\ pc = "done"
  /\ IF outcome.state = "raised"
     THEN ProviderRaise(outcome.error)
     ELSE pop' = [name |-> pop.name, id |-> pop.id, sid |-> pop.sid,
                  stage |-> "returned", plan |-> pop.plan, content |-> outcome.value]
  /\ UNCHANGED <<clientVars, scenario, pureVars, ghostJar>>

ProviderStep == GateDone \/ ApiDone \/ BytesDone

----------------------------------------------------------------------------
(* subhd.ts: search and doctor, and search of the mock catalog.  For search *)
(* pop is [name, stage, request] and then its results or error, for doctor *)
(* [name, stage] and then its report.                                      *)

SearchRaise(error) ==
  pop' = [name |-> pop.name, request |-> pop.request, stage |-> "raised", error |-> error]

CallSearchAlwaysFetches ==
  \E request \in SearchRequests :
    /\ ProviderIdle
    /\ pc \in {"idle", "done"}
    /\ ncalls < CallLimit(scenario)
    /\ ncalls' = ncalls + 1
    /\ calls' = <<>>
    /\ pop' = [name |-> "search", request |-> request, stage |-> "search"]
    /\ StartRequest("requestText", searchRequest(BaseUrl, request.query))

\* Entry of search (lines 67-77): an empty token set ends the call at once.
CallSearch ==
  \E request \in SearchRequests :
    /\ ProviderIdle
    /\ pc \in {"idle", "done"}
    /\ ncalls < CallLimit(scenario)
    /\ ncalls' = ncalls + 1
    /\ calls' = <<>>
    /\ IF Len(request.queryTokens) = 0
       THEN /\ pop' = [name |-> "search", request |-> request, stage |-> "returned",
                       results |-> <<>>]
            /\ UNCHANGED <<quiet, cookieJar, pc, cur, attempt, timers, sent, ntransport,
                           response, last, sleeps, outcome>>
       ELSE /\ pop' = [name |-> "search", request |-> request, stage |-> "search"]
            /\ StartRequest("requestText", searchRequest(BaseUrl, request.query))

\* requestText of the search page settled (lines 79-97).  The parser throws a
\* RangeError on a character reference above 0x10FFFF.
SearchDone ==
  /\ pop.stage = "search"
  /\ pc = "done"
  /\ IF outcome.state = "raised" THEN SearchRaise(outcome.error)
     ELSE IF looksLikeAntiBotChallenge(outcome.value)
     THEN SearchRaise(createSubhdChallengeError(
                        [url |-> searchPageUrlOf(BaseUrl, pop.request.query),
                         reason |-> "search-page-challenge",
                         sid |-> {}, message |-> {}]))
     ELSE IF parseSubhdSearchItemsThrows(outcome.value)
     THEN SearchRaise([type |-> "Error", name |-> "RangeError",
                       message |-> "Invalid code point"])
     ELSE pop' = [name |-> pop.name, request |-> pop.request, stage |-> "returned",
                  results |-> searchResultsOf(outcome.value, pop.request)]
  /\ UNCHANGED <<clientVars, scenario, pureVars, ghostJar>>

\* search of the mock catalog, which has no upstream (assrt-mock.ts, lines 72-78).
CallMockSearch ==
  \E request \in SearchRequests :
    /\ ProviderIdle
    /\ pc \in {"idle", "done"}
    /\ ncalls < CallLimit(scenario)
    /\ ncalls' = ncalls + 1
    /\ calls' = <<>>
    /\ pop' = [name |-> "mockSearch", request |-> request, stage |-> "returned",
               results |-> mockSearch(ASSRT_MOCK_DATA, request)]
    /\ UNCHANGED <<quiet, cookieJar, pc, cur, attempt, timers, sent, ntransport,
                   response, last, sleeps, outcome>>

\* The ids handed to the mock catalog: its five records, an unknown id, an id
\* of the other catalog and a known id with a blank after it.
MockIds ==
  {ASSRT_MOCK_DATA[i].id : i \in 1..Len(ASSRT_MOCK_DATA)}
  \cup {<<"a", "s", "s", "r", "t", "-", "9", "9", "9", "9">>, <<"s", "u", "b", "h", "d", ":", "x", "D", "0">>, <<"a", "s", "s", "r", "t", "-", "1", "0", "0", "1", " ">>}

\* The mock operation has settled: its plan, its payload or its error.
mockSettled(name, id, resolved, withContent) ==
  IF ~resolved.ok
  THEN [name |-> name, id |-> id, sid |-> <<>>, stage |-> "raised", error |-> resolved.error]
  ELSE IF withContent
  THEN [name |-> name, id |-> id, sid |-> <<>>, stage |-> "returned", plan |-> resolved.plan,
        content |-> mockContentOf(resolved.plan)]
  ELSE [name |-> name, id |-> id, sid |-> <<>>, stage |-> "returned", plan |-> resolved.plan]

\* getDownloadPlan of the mock catalog (assrt-mock.ts, lines 80-89).
CallMockGetDownloadPlan ==
  \E id \in MockIds :
    /\ ProviderIdle
    /\ pc \in {"idle", "done"}
    /\ ncalls < CallLimit(scenario)
    /\ ncalls' = ncalls + 1
    /\ calls' = <<>>
    /\ pop' = mockSettled("mockGetDownloadPlan", id, mockPlanOf(ASSRT_MOCK_DATA, id), FALSE)
    /\ UNCHANGED <<quiet, cookieJar, pc, cur, attempt, timers, sent, ntransport,
                   response, last, sleeps, outcome>>

\* downloadSubtitle of the mock catalog (lines 91-106): one call of
\* getDownloadPlan, then the payload.
CallMockDownloadSubtitle ==
  \E id \in MockIds :
    /\ ProviderIdle
    /\ pc \in {"idle", "done"}
    /\ ncalls < CallLimit(scenario)
    /\ ncalls' = ncalls + 1
    /\ calls' = <<>>
    /\ pop' = mockSettled("mockDownloadSubtitle", id, mockPlanOf(ASSRT_MOCK_DATA, id), TRUE)
    /\ UNCHANGED <<quiet, cookieJar, pc, cur, attempt, timers, sent, ntransport,
                   response, last, sleeps, outcome>>

\* Entry of doctor (lines 168-175).
CallDoctor ==
  /\ ProviderIdle
  /\ pc \in {"idle", "done"}
  /\ ncalls < CallLimit(scenario)
  /\ ncalls' = ncalls + 1
  /\ calls' = <<>>
  /\ pop' = [name |-> "doctor", stage |-> "doctor"]
  /\ StartRequest("requestText", doctorRequest)

\* doctor without its catch clause: a failure of the fetch is raised.
DoctorDoneUncaught ==
  /\ pop.stage = "doctor"
  /\ pc = "done"
  /\ pop' = IF outcome.state = "raised"
            THEN [name |-> pop.name, stage |-> "raised", error |-> outcome.error]
            ELSE [name |-> pop.name, stage |-> "returned",
                  report |->
                    IF looksLikeAntiBotChallenge(outcome.value)
                    THEN [ok |-> FALSE,
                          details |-> [provider |-> "subhd", baseUrl |-> BaseUrl,
                                       classification |-> "anti-bot"]]
                    ELSE [ok |-> TRUE,
                          details |-> [provider |-> "subhd", baseUrl |-> BaseUrl]]]
  /\ UNCHANGED <<clientVars, scenario, pureVars, ghostJar>>

\* requestText of the landing page settled (lines 177-208): every outcome
\* becomes a report.
DoctorDone ==
  /\ pop.stage = "doctor"
  /\ pc = "done"
  /\ pop' = [name |-> pop.name, stage |-> "returned",
             report |->
               IF outcome.state = "raised"
               THEN LET appError == toSubhdUnknownError(outcome.error)
                    IN [ok |-> FALSE,
                        details |-> [provider |-> "subhd", code |-> appError.code,
                                     details |-> appError.details]]
               ELSE IF looksLikeAntiBotChallenge(outcome.value)
               THEN [ok |-> FALSE,
                     details |-> [provider |-> "subhd", baseUrl |-> BaseUrl,
                                  classification |-> "anti-bot"]]
               ELSE [ok |-> TRUE,
                     details |-> [provider |-> "subhd", baseUrl |-> BaseUrl]]]
  /\ UNCHANGED <<clientVars, scenario, pureVars, ghostJar>>

CatalogStep == SearchDone \/ DoctorDone


ClientStep ==
  \/ BeginAttempt
  \/ TransportResponds
  \/ TransportFails
  \/ TimerFires
  \/ SnippetRead
  \/ SleepDone
  \/ BodyArrives
  \/ BodyFails

vars == <<clientVars, scenario, pop, pureVars, ghostJar>>

Init == ClientInit("retry")

Next == CallDirect \/ ClientStep

Spec == Init /\ [][Next]_vars

(* The bare client with the scheduling the runtime guarantees: a pending    *)
(* timer fires, a sleep ends, and the loop goes on to its next attempt.     *)
(* Nothing makes the transport settle or a response body arrive.           *)
Fairness == WF_vars(TimerFires) /\ WF_vars(SleepDone) /\ WF_vars(BeginAttempt)

LiveSpec == Init /\ [][Next]_vars /\ Fairness

\* The bare client in the scenario that varies the Set-Cookie headers.
CookieInit == ClientInit("cookies")

CookieSpec == CookieInit /\ [][Next]_vars

\* The provider's operations on the provider's own client.
ProviderInit == ClientInit("provider")

ProviderNext == CallGetDownloadPlan \/ CallDownloadSubtitle \/ ProviderStep \/ ClientStep

ProviderSpec == ProviderInit /\ [][ProviderNext]_vars

\* Every operation of the SubHD provider, and search of the mock catalog.
CatalogInit == ClientInit("catalog")

CatalogNext ==
  \/ CallSearch
  \/ CallMockSearch
  \/ CallMockGetDownloadPlan
  \/ CallMockDownloadSubtitle
  \/ CallDoctor
  \/ CallGetDownloadPlan
  \/ CallDownloadSubtitle
  \/ CatalogStep
  \/ ProviderStep
  \/ ClientStep

CatalogSpec == CatalogInit /\ [][CatalogNext]_vars

(* classifyResponse applied to one status and one snippet.  Each snippet    *)
(* carries what a reader expects of it: whether it matches the              *)
(* too-many-requests / rate-limit pattern, and whether it holds an anti-bot *)
(* signature.                                                               *)
ClassifySnippets ==
  {
    [snippet |-> <<>>,
     rate |-> FALSE, bot |-> FALSE],
    [snippet |-> <<"n", "o", "t", " ", "f", "o", "u", "n", "d">>,
     rate |-> FALSE, bot |-> FALSE],
    [snippet |-> <<"T", "o", "o", " ", "M", "a", "n", "y", " ", " ", "R", "e", "q", "u", "e", "s", "t", "s">>,
     rate |-> TRUE, bot |-> FALSE],
    [snippet |-> <<"t", "o", "o", "m", "a", "n", "y", " ", "r", "e", "q", "u", "e", "s", "t", "s">>,
     rate |-> FALSE, bot |-> FALSE],
    [snippet |-> <<"R", "a", "t", "e", "L", "i", "m", "i", "t", " ", "e", "x", "c", "e", "e", "d", "e", "d">>,
     rate |-> TRUE, bot |-> FALSE],
    [snippet |-> <<"r", "a", "t", "e", " ", "\t", "l", "i", "m", "i", "t">>,
     rate |-> TRUE, bot |-> FALSE],
    [snippet |-> <<"r", "a", "t", "e", "-", "l", "i", "m", "i", "t">>,
     rate |-> FALSE, bot |-> FALSE],
    [snippet |-> <<"C", "a", "p", "t", "c", "h", "a">>,
     rate |-> FALSE, bot |-> TRUE],
    [snippet |-> <<"A", "t", "t", "e", "n", "t", "i", "o", "n", " ", "R", "e", "q", "u", "i", "r", "e", "d", "!", " ", "|", " ", "C", "l", "o", "u", "d", "f", "l", "a", "r", "e">>,
     rate |-> FALSE, bot |-> TRUE],
    [snippet |-> <<"a", "t", "t", "e", "n", "t", "i", "o", "n", "r", "e", "q", "u", "i", "r", "e", "d">>,
     rate |-> FALSE, bot |-> FALSE],
    [snippet |-> <<"U+9A8C", "U+8BC1", "U+7801">>,
     rate |-> FALSE, bot |-> TRUE],
    [snippet |-> <<"U+9A8C", "U+8BC1", "U+83B7", "U+53D6", "U+4E0B", "U+8F7D", "U+5730", "U+5740">>,
     rate |-> FALSE, bot |-> TRUE],
    [snippet |-> <<"U+9A8C", "U+8BC1">>,
     rate |-> FALSE, bot |-> FALSE],
    [snippet |-> <<"/", "j", "s", "d", "/", "m", "a", "i", "n", ".", "j", "s">>,
     rate |-> FALSE, bot |-> TRUE],
    [snippet |-> <<"C", "F", "-", "C", "h", "a", "l", "l", "e", "n", "g", "e">>,
     rate |-> FALSE, bot |-> TRUE],
    [snippet |-> <<"c", "h", "a", "l", "l", "e", "n", "g", "e", "-", "p", "l", "a", "t", "f", "o", "r", "m">>,
     rate |-> FALSE, bot |-> TRUE],
    [snippet |-> <<"r", "a", "t", "e", " ", "l", "i", "m", "i", "t", " ", "c", "a", "p", "t", "c", "h", "a">>,
     rate |-> TRUE, bot |-> TRUE]
  }

ClassifyStatuses == {400, 401, 403, 404, 429, 500, 503}

ClassifyInit ==
  /\ IdleInit("retry")
  /\ cfg.retries = DefaultRetries
  /\ cfg.backoffMs = DefaultBackoffMs
  /\ \E status \in ClassifyStatuses, s \in ClassifySnippets :
       fin = [fn |-> "classifyResponse", status |-> status, snippet |-> s.snippet,
              rate |-> s.rate, bot |-> s.bot]
  /\ fout = "pending"

Classify ==
  /\ fin.fn = "classifyResponse"
  /\ fout = "pending"
  /\ fout' = classifyResponse(fin.status, fin.snippet)
  /\ UNCHANGED <<clientVars, scenario, pop, fin, ghostJar>>

ClassifyNext == Classify

ClassifySpec == ClassifyInit /\ [][ClassifyNext]_vars

----------------------------------------------------------------------------
(* rankSubtitleCandidates applied to a candidate list and then to a         *)
(* permutation of it, under the same request and limit.  The first list     *)
(* keeps the order of RankCandidates, the second is any of its              *)
(* permutations: two permutations of one list are both compared with it.    *)

\* The longest candidate list.
MaxCandidates == 4

\* The candidates that lists are drawn from.  The first four have the same
\* title and the greatest download boost; the first two differ in their id only.
RankCandidates ==
  <<
     [id |-> <<"s", "u", "b", "h", "d", ":", "x", "D", "0">>,
      providerId |-> "subhd",
      title |-> <<"T", "h", "e", " ", "M", "a", "t", "r", "i", "x">>,
      language |-> "zh-cn", format |-> "srt", downloads |-> 1500,
      hearingImpaired |-> {}],
     [id |-> <<"s", "u", "b", "h", "d", ":", "x", "a", "1">>,
      providerId |-> "subhd",
      title |-> <<"T", "h", "e", " ", "M", "a", "t", "r", "i", "x">>,
      language |-> "zh-cn", format |-> "srt", downloads |-> 1500,
      hearingImpaired |-> {}],
     [id |-> <<"s", "u", "b", "h", "d", ":", "z", "9">>,
      providerId |-> "subhd",
      title |-> <<"T", "h", "e", " ", "M", "a", "t", "r", "i", "x">>,
      language |-> "zh-cn", format |-> "srt", downloads |-> 2100,
      hearingImpaired |-> {}],
     [id |-> <<"a", "s", "s", "r", "t", "-", "1", "0", "0", "1">>,
      providerId |-> "assrt",
      title |-> <<"T", "h", "e", " ", "M", "a", "t", "r", "i", "x">>,
      language |-> "en", format |-> "srt", downloads |-> 1500,
      hearingImpaired |-> {TRUE}],
     [id |-> <<"a", "s", "s", "r", "t", "-", "2", "0", "0", "1">>,
      providerId |-> "assrt",
      title |-> <<"M", "a", "t", "r", "i", "x", " ", "R", "e", "l", "o", "a", "d", "e", "d">>,
      language |-> "zh-tw", format |-> "ass", downloads |-> 520,
      hearingImpaired |-> {}] >>

\* The inputs of normalization behind the ranking requests.
RankInputs ==
  {
    [query |-> <<"T", "h", "e", " ", "M", "a", "t", "r", "i", "x">>, year |-> {}, season |-> {}, episode |-> {},
     languages |-> {}],
    [query |-> <<"T", "h", "e", " ", "M", "a", "t", "r", "i", "x">>, year |-> {}, season |-> {}, episode |-> {},
     languages |-> {<<<<"E", "N">>, <<"c", "h", "s">>>>}],
    [query |-> <<"T", "h", "e", " ", "M", "a", "t", "r", "i", "x">>, year |-> {}, season |-> {}, episode |-> {},
     languages |-> {<<<<"z", "h", "-", "c", "n">>, <<"e", "n">>>>}],
    [query |-> <<"!", "?">>, year |-> {}, season |-> {}, episode |-> {},
     languages |-> {<<<<"e", "n">>>>}] }

RankRequests == {normalizeSubtitleRequest(input) : input \in RankInputs}

\* The limit: left out, or a number.
RankLimits == {{}} \cup {{n} : n \in 0..MaxCandidates}

\* The lists of distinct positions of RankCandidates, up to MaxCandidates long.
IndexLists ==
  UNION { {list \in [1..n -> 1..Len(RankCandidates)] :
             \A i, j \in 1..n : list[i] = list[j] => i = j} : n \in 0..MaxCandidates }

candidatesAt(list) == [i \in 1..Len(list) |-> RankCandidates[list[i]]]

RankInit ==
  /\ IdleInit("retry")
  /\ cfg.retries = DefaultRetries
  /\ cfg.backoffMs = DefaultBackoffMs
  /\ \E request \in RankRequests, limit \in RankLimits, list \in IndexLists, permuted \in IndexLists :
       /\ \A i, j \in 1..Len(list) : i < j => list[i] < list[j]
       /\ Len(list) = Len(permuted)
       /\ {list[i] : i \in 1..Len(list)} = {permuted[i] : i \in 1..Len(permuted)}
       /\ fin = [fn |-> "rank", request |-> request, limit |-> limit,
                 lists |-> <<candidatesAt(list), candidatesAt(permuted)>>]
  /\ fout = <<>>

\* One call of rankSubtitleCandidates: on the list first, then on its permutation.
Rank ==
  /\ fin.fn = "rank"
  /\ Len(fout) < Len(fin.lists)
  /\ fout' = Append(fout, rankSubtitleCandidates(fin.request, fin.lists[Len(fout) + 1],
                                                 fin.limit))
  /\ UNCHANGED <<clientVars, scenario, pop, fin, ghostJar>>

RankNext == Rank

RankSpec == RankInit /\ [][RankNext]_vars

----------------------------------------------------------------------------
(* normalizeSubtitleRequest applied to two inputs, and then to the output   *)
(* of the first.  Each input carries what a reader takes it for: its query  *)
(* text with the case and the whitespace runs put aside (text), and the set *)
(* of languages it names (codes).                                           *)

NormalizeInputs ==
  {
    [query |-> <<" ", " ", " ", "T", "h", "e", " ", " ", " ", "M", "a", "t", "r", "i", "x", " ", " ", " ">>,
     year |-> {1999}, season |-> {}, episode |-> {},
     languages |-> {<<<<"E", "N">>, <<"e", "n", "g">>, <<"c", "h", "s">>, <<"z", "h", "-", "c", "n">>>>},
     text |-> "the matrix", codes |-> {"en", "zh-cn"}],
    [query |-> <<"t", "h", "e", " ", "m", "a", "t", "r", "i", "x">>,
     year |-> {1999}, season |-> {}, episode |-> {},
     languages |-> {<<<<"z", "h", "-", "c", "n">>, <<"e", "n">>>>},
     text |-> "the matrix", codes |-> {"en", "zh-cn"}],
    [query |-> <<"T", "H", "E", "\t", "M", "A", "T", "R", "I", "X", "\n">>,
     year |-> {1999}, season |-> {}, episode |-> {},
     languages |-> {<<<<" ", "Z", "H", "-", "H", "a", "n", "s", " ">>, <<"E", "n", "g", "l", "i", "s", "h">>, <<"e", "n">>>>},
     text |-> "the matrix", codes |-> {"en", "zh-cn"}],
    [query |-> <<"T", "h", "e", " ", "M", "a", "t", "r", "i", "x">>,
     year |-> {}, season |-> {}, episode |-> {},
     languages |-> {},
     text |-> "the matrix", codes |-> {}],
    [query |-> <<"t", "h", "e", " ", " ", "m", "a", "t", "r", "i", "x">>,
     year |-> {}, season |-> {}, episode |-> {},
     languages |-> {<<<<>>, <<" ">>>>},
     text |-> "the matrix", codes |-> {"(blank)"}],
    [query |-> <<"S", "h", "o", "w">>,
     year |-> {}, season |-> {1}, episode |-> {2},
     languages |-> {<<<<"f", "r">>, <<"J", "P", "N">>>>},
     text |-> "show", codes |-> {"fr", "ja"}],
    [query |-> <<"s", "h", "o", "w">>,
     year |-> {}, season |-> {1}, episode |-> {2},
     languages |-> {<<<<"j", "a">>, <<"F", "R">>, <<"f", "r">>>>},
     text |-> "show", codes |-> {"fr", "ja"}],
    [query |-> <<"M", "a", "t", "r", "i", "x", " ", "T", "h", "e">>,
     year |-> {1999}, season |-> {}, episode |-> {},
     languages |-> {<<<<"e", "n">>, <<"z", "h", "-", "c", "n">>>>},
     text |-> "matrix the", codes |-> {"en", "zh-cn"}],
    [query |-> <<"a">>,
     year |-> {}, season |-> {}, episode |-> {},
     languages |-> {<<<<"c", "o", "n", "s", "t", "r", "u", "c", "t", "o", "r">>>>},
     text |-> "a", codes |-> {"constructor"}],
    [query |-> <<"a">>,
     year |-> {}, season |-> {}, episode |-> {},
     languages |-> {<<<<"e", "n">>, <<"c", "o", "n", "s", "t", "r", "u", "c", "t", "o", "r">>>>},
     text |-> "a", codes |-> {"constructor", "en"}],
    [query |-> <<"A">>,
     year |-> {}, season |-> {}, episode |-> {},
     languages |-> {<<<<"C", "o", "n", "s", "t", "r", "u", "c", "t", "o", "r">>, <<"e", "n">>>>},
     text |-> "a", codes |-> {"constructor", "en"}],
    [query |-> <<"a">>,
     year |-> {}, season |-> {}, episode |-> {},
     languages |-> {<<<<"_", "_", "p", "r", "o", "t", "o", "_", "_">>>>},
     text |-> "a", codes |-> {"__proto__"}] }

\* What normalizeSubtitleRequest reads of an input.
inputOf(labelled) ==
  [query |-> labelled.query, year |-> labelled.year, season |-> labelled.season,
   episode |-> labelled.episode, languages |-> labelled.languages]

\* The input made of a normalized request, with its canonical or its
\* lower-cased query.
inputAgain(request, member) ==
  [query |-> request[member], year |-> request.year, season |-> request.season,
   episode |-> request.episode, languages |-> {request.languagePreferences}]

NormalizeInit ==
  /\ IdleInit("retry")
  /\ cfg.retries = DefaultRetries
  /\ cfg.backoffMs = DefaultBackoffMs
  /\ \E first \in NormalizeInputs, second \in NormalizeInputs,
        member \in {"query", "normalizedQuery"} :
       fin = [fn |-> "normalize", inputs |-> <<first, second>>, member |-> member]
  /\ fout = <<>>

\* The outcome of one call of normalizeSubtitleRequest.
normalizeOutcomes(input) ==
  (IF normalizeSubtitleRequestMustThrow(input) THEN {}
   ELSE {[state |-> "returned", value |-> normalizeSubtitleRequest(input)]})
  \cup (IF normalizeSubtitleRequestMayThrow(input)
        THEN {[state |-> "raised",
               error |-> [type |-> "Error", name |-> "TypeError",
                          message |-> "not a function"]]}
        ELSE {})

\* normalizeSubtitleRequest of the first input, then of the second.
Normalize ==
  /\ fin.fn = "normalize"
  /\ Len(fout) < Len(fin.inputs)
  /\ \E result \in normalizeOutcomes(inputOf(fin.inputs[Len(fout) + 1])) :
       fout' = Append(fout, result)
  /\ UNCHANGED <<clientVars, scenario, pop, fin, ghostJar>>

\* normalizeSubtitleRequest of the output of the first call.
NormalizeAgain ==
  /\ fin.fn = "normalize"
  /\ Len(fout) = Len(fin.inputs)
  /\ fout[1].state = "returned"
  /\ \E result \in normalizeOutcomes(inputAgain(fout[1].value, fin.member)) :
       fout' = Append(fout, result)
  /\ UNCHANGED <<clientVars, scenario, pop, fin, ghostJar>>

NormalizeNext == Normalize \/ NormalizeAgain

NormalizeSpec == NormalizeInit /\ [][NormalizeNext]_vars

\* Inputs whose query or languages hold the delimiters of the fingerprint,
\* among inputs that do not.
FingerprintInputs ==
  {
    [query |-> <<"a">>, year |-> {1}, season |-> {2}, episode |-> {3},
     languages |-> {<<<<"4", "|", "5">>>>}, text |-> "a", codes |-> {"4|5"}],
    [query |-> <<"a", "|", "1">>, year |-> {2}, season |-> {3}, episode |-> {4},
     languages |-> {<<<<"5">>>>}, text |-> "a|1", codes |-> {"5"}],
    [query |-> <<"a">>, year |-> {}, season |-> {}, episode |-> {},
     languages |-> {<<<<"e", "n", ",", "f", "r">>>>}, text |-> "a", codes |-> {"en,fr"}],
    [query |-> <<"a">>, year |-> {}, season |-> {}, episode |-> {},
     languages |-> {<<<<"f", "r">>, <<"E", "N">>>>}, text |-> "a", codes |-> {"en", "fr"}],
    [query |-> <<"A">>, year |-> {}, season |-> {}, episode |-> {},
     languages |-> {<<<<"e", "n">>, <<"f", "r", "a">>, <<"e", "n">>>>}, text |-> "a", codes |-> {"en", "fr"}],
    [query |-> <<"a", "|">>, year |-> {}, season |-> {}, episode |-> {1},
     languages |-> {}, text |-> "a|", codes |-> {}],
    [query |-> <<"a">>, year |-> {}, season |-> {1}, episode |-> {},
     languages |-> {<<>>}, text |-> "a", codes |-> {}],
    [query |-> <<"a", " ", " ", "b">>, year |-> {1999}, season |-> {}, episode |-> {},
     languages |-> {<<<<"e", "n">>>>}, text |-> "a b", codes |-> {"en"}]
  }

FingerprintInit ==
  /\ IdleInit("retry")
  /\ cfg.retries = DefaultRetries
  /\ cfg.backoffMs = DefaultBackoffMs
  /\ \E first \in FingerprintInputs, second \in FingerprintInputs,
        member \in {"query", "normalizedQuery"} :
       fin = [fn |-> "normalize", inputs |-> <<first, second>>, member |-> member]
  /\ fout = <<>>

\* normalizeSubtitleRequest applied to two inputs that may hold delimiters.
FingerprintSpec == FingerprintInit /\ [][NormalizeNext]_vars

----------------------------------------------------------------------------
(* parseSubhdProviderId applied to identifiers, bare and prefixed.         *)

\* The longest identifier drawn from IdChars.
MaxIdLen == 3

IdChars == {"a", "Z", "0", "9", "s", "d"}

\* The identifiers: every text over IdChars up to the length, and the prefix
\* word itself.
Identifiers ==
  UNION {[1..n -> IdChars] : n \in 1..MaxIdLen} \cup {<<"s", "u", "b", "h", "d">>, <<"S", "u", "b", "H", "D", "9">>}

IdInit ==
  /\ IdleInit("retry")
  /\ cfg.retries = DefaultRetries
  /\ cfg.backoffMs = DefaultBackoffMs
  /\ \E s \in Identifiers, form \in {"prefixed", "bare"} :
       fin = [fn |-> "parseId", s |-> s,
              id |-> IF form = "prefixed" THEN toSubhdProviderId(s) ELSE s]
  /\ fout = <<>>

\* The head and the end of getDownloadPlan (part_006 lines 100-101, 143-144):
\* the id is parsed, and the plan's id is made of what was parsed.
planIdOf(parsed) ==
  IF parsed.ok THEN [ok |-> TRUE, sid |-> parsed.sid, planId |-> toSubhdProviderId(parsed.sid)]
  ELSE parsed

ParseProviderId ==
  /\ fin.fn = "parseId"
  /\ fout = <<>>
  /\ fout' = <<planIdOf(parseSubhdProviderId(fin.id))>>
  /\ UNCHANGED <<clientVars, scenario, pop, fin, ghostJar>>

IdSpec == IdInit /\ [][ParseProviderId]_vars

----------------------------------------------------------------------------
(* parseSubhdSearchItems and parseSubhdDownloadPage applied to documents.   *)
(* A search document is a sequence of result cards; each card carries what  *)
(* a reader takes from it alone.  A download page is a card header.         *)

MaxCards == 3

ParseCards ==
  <<
    [html |-> CardHtml(TitleLink(<<"x", "D", "0">>),
                       <<"T", "h", "e", ".", "M", "a", "t", "r", "i", "x", ".",
                        "1", "9", "9", "9">>,
                       LanguageLine(<<"U+7B80", "U+4F53", " ", "A", "S", "S">>)
                       \o <<"<", "i", " ", "c", "l", "a", "s", "s", "=", "\"",
                          "b", "i", " ", "b", "i", "-", "d", "o", "w", "n",
                          "l", "o", "a", "d", "\"", ">", "<", "/", "i", ">",
                          "<", "s", "p", "a", "n", ">", " ", "2", "4", "7",
                          " ", "<", "/", "s", "p", "a", "n", ">">>),
     sid |-> {<<"x", "D", "0">>}, title |-> <<"T", "h", "e", ".", "M", "a", "t", "r", "i", "x", ".", "1", "9",
            "9", "9">>,
     language |-> "zh-cn", format |-> "ass", downloads |-> 247, decodable |-> TRUE],
    [html |-> CardHtml(TitleLink(<<"x", "D", "0">>),
                       <<"M", "a", "t", "r", "i", "x", " ", " ", "R", "e", "l",
                        "o", "a", "d", "e", "d">>,
                       LanguageLine(<<"E", "N", " ", "S", "D", "H", " ", "V", "T", "T">>)
                       \o <<>>),
     sid |-> {<<"x", "D", "0">>}, title |-> <<"M", "a", "t", "r", "i", "x", " ", "R", "e", "l", "o", "a", "d",
            "e", "d">>,
     language |-> "en", format |-> "vtt", downloads |-> 0, decodable |-> TRUE],
    [html |-> CardHtml(TitleLink(<<"M", "W", "F">>),
                       <<"S", "h", "o", "w", " ", "&", "a", "m", "p", ";", " ",
                        "2", "0", "0", "3">>,
                       LanguageLine(<<"U+7E41", "U+4F53">>)
                       \o <<"U+4E0B", "U+8F7D", ":", " ", "5", "2">>),
     sid |-> {<<"M", "W", "F">>}, title |-> <<"S", "h", "o", "w", " ", "&", " ", "2", "0", "0", "3">>,
     language |-> "zh-tw", format |-> "srt", downloads |-> 52, decodable |-> TRUE],
    [html |-> CardHtml(TitleLinkWithoutId,
                       <<"N", "o", " ", "i", "d">>,
                       LanguageLine(<<"U+82F1", "U+6587">>)
                       \o <<"U+4E0B", "U+8F7D", " ", "9">>),
     sid |-> {}, title |-> <<"N", "o", " ", "i", "d">>,
     language |-> "en", format |-> "srt", downloads |-> 9, decodable |-> TRUE],
    [html |-> CardHtml(TitleLink(<<"q", "7">>),
                       <<"M", "a", "t", "r", "i", "x", " ", "&", "#", "1", "1",
                        "1", "4", "1", "1", "2", ";">>,
                       LanguageLine(<<>>)
                       \o <<>>),
     sid |-> {<<"q", "7">>}, title |-> <<>>,
     language |-> "zh", format |-> "srt", downloads |-> 0, decodable |-> FALSE] >>

ParsePages ==
  {
    [html |-> <<"<", "h", "5", " ", "c", "l", "a", "s", "s", "=", "\"", "c",
              "a", "r", "d", "-", "h", "e", "a", "d", "e", "r", "\"", ">",
              "T", "h", "e", ".", "M", "a", "t", "r", "i", "x", ".", "1", "9",
              "9", "9", " ", "A", "S", "S", "<", "/", "h", "5", ">">>,
     decodable |-> TRUE],
    [html |-> <<"<", "h", "5", " ", "c", "l", "a", "s", "s", "=", "\"", "c",
              "a", "r", "d", "-", "h", "e", "a", "d", "e", "r", "\"", ">",
              "T", "h", "e", ":", " ", "M", "a", "t", "r", "i", "x", " ", "&",
              "a", "m", "p", ";", " ", "1", "9", "9", "9", "<", "/", "h", "5",
              ">">>,
     decodable |-> TRUE],
    [html |-> <<"<", "h", "5", " ", "c", "l", "a", "s", "s", "=", "\"", "c",
              "a", "r", "d", "-", "h", "e", "a", "d", "e", "r", "\"", ">",
              " ", "\t", " ", "T", "h", "e", " ", " ", " ", "M", "a", "t",
              "r", "i", "x", " ", "\n", "<", "/", "h", "5", ">">>,
     decodable |-> TRUE],
    [html |-> <<"<", "h", "5", " ", "c", "l", "a", "s", "s", "=", "\"", "c",
              "a", "r", "d", "-", "h", "e", "a", "d", "e", "r", "\"", ">",
              "?", "*", "|", "<", "/", "h", "5", ">">>,
     decodable |-> TRUE],
    [html |-> <<"<", "h", "5", " ", "c", "l", "a", "s", "s", "=", "\"", "c",
              "a", "r", "d", "-", "h", "e", "a", "d", "e", "r", "\"", ">",
              "a", "/", "b", "\\", "c", "<", "/", "h", "5", ">">>,
     decodable |-> TRUE],
    [html |-> <<"<", "h", "5", " ", "c", "l", "a", "s", "s", "=", "\"", "c",
              "a", "r", "d", "-", "h", "e", "a", "d", "e", "r", "\"", ">",
              "T", "h", "e", " ", "M", "a", "t", "r", "i", "x", " ", "1", "9",
              "9", "9", " ", "x", "x", "x", "x", "x", "x", "x", "x", "x", "x",
              "x", "x", "x", "x", "x", "x", "x", "x", "x", "x", "x", "x", "x",
              "x", "x", "x", "x", "x", "x", "x", "x", "x", "x", "x", "x", "x",
              "x", "x", "x", "x", "x", "x", "x", "x", "x", "x", "x", "x", "x",
              "x", "x", "x", "x", "x", "x", "x", "x", "x", "x", "x", "x", "x",
              "x", "x", "x", "x", "x", "x", "x", "x", "x", "x", "x", "x", "x",
              "x", "x", "x", "x", " ", "y", " ", "R", "e", "m", "a", "s", "t",
              "e", "r", "e", "d", "<", "/", "h", "5", ">">>,
     decodable |-> TRUE],
    [html |-> <<>>,
     decodable |-> TRUE],
    [html |-> <<"<", "h", "5", " ", "c", "l", "a", "s", "s", "=", "\"", "c",
              "a", "r", "d", "-", "h", "e", "a", "d", "e", "r", "\"", ">",
              "M", "a", "t", "r", "i", "x", " ", "&", "#", "1", "1", "1", "4",
              "1", "1", "2", ";", "<", "/", "h", "5", ">">>,
     decodable |-> FALSE],
    [html |-> <<"<", "h", "5", " ", "c", "l", "a", "s", "s", "=", "\"", "c",
              "a", "r", "d", "-", "h", "e", "a", "d", "e", "r", "\"", ">",
              "\"", "M", "a", "t", "r", "i", "x", "\"", "<", "/", "h", "5",
              ">">>,
     decodable |-> TRUE] }

ParseSids == {<<"x", "D", "0">>, <<"q", "7">>}

CardLists == UNION {[1..n -> 1..Len(ParseCards)] : n \in 0..MaxCards}

RECURSIVE concatCards(_)
concatCards(list) ==
  IF list = <<>> THEN <<>> ELSE ParseCards[Head(list)].html \o concatCards(Tail(list))

ParseInit ==
  /\ IdleInit("retry")
  /\ cfg.retries = DefaultRetries
  /\ cfg.backoffMs = DefaultBackoffMs
  /\ \/ \E list \in CardLists :
          fin = [fn |-> "parseSubhdSearchItems", cards |-> list,
                 html |-> <<"<", "h", "t", "m", "l", ">">> \o concatCards(list)]
     \/ \E page \in ParsePages, sid \in ParseSids :
          fin = [fn |-> "parseSubhdDownloadPage", sid |-> sid, html |-> page.html,
                 decodable |-> page.decodable]
  /\ fout = <<>>

RangeErrorRaised ==
  [state |-> "raised",
   error |-> [type |-> "Error", name |-> "RangeError",
              message |-> "Invalid code point"]]

\* One call of parseSubhdSearchItems.
ParseSearchItems ==
  /\ fin.fn = "parseSubhdSearchItems"
  /\ fout = <<>>
  /\ fout' = <<IF parseSubhdSearchItemsThrows(fin.html) THEN RangeErrorRaised
               ELSE [state |-> "returned", value |-> parseSubhdSearchItems(fin.html)]>>
  /\ UNCHANGED <<clientVars, scenario, pop, fin, ghostJar>>

\* One call of parseSubhdDownloadPage.
ParseDownloadPage ==
  /\ fin.fn = "parseSubhdDownloadPage"
  /\ fout = <<>>
  /\ fout' = <<IF parseSubhdDownloadPageThrows(fin.html) THEN RangeErrorRaised
               ELSE [state |-> "returned",
                     value |-> parseSubhdDownloadPage(fin.html, fin.sid)]>>
  /\ UNCHANGED <<clientVars, scenario, pop, fin, ghostJar>>

ParseNext == ParseSearchItems \/ ParseDownloadPage

ParseSpec == ParseInit /\ [][ParseNext]_vars

----------------------------------------------------------------------------
(* core/errors.ts and core/exit-codes.ts.                                   *)

CLI_ERROR_CODES ==
  <<"E_ARG_INVALID", "E_ARG_MISSING", "E_ARG_CONFLICT", "E_ARG_UNSUPPORTED",
    "E_AUTH_REQUIRED", "E_AUTH_INVALID", "E_NOT_FOUND_RESOURCE",
    "E_UPSTREAM_NETWORK", "E_UPSTREAM_TIMEOUT", "E_UPSTREAM_BAD_RESPONSE",
    "E_UNKNOWN">>

\* The prefix of each code of CLI_ERROR_CODES up to and including the
\* underscore that ends its family name.
CodePrefix ==
  [E_ARG_INVALID |-> "E_ARG_", E_ARG_MISSING |-> "E_ARG_", E_ARG_CONFLICT |-> "E_ARG_",
   E_ARG_UNSUPPORTED |-> "E_ARG_", E_AUTH_REQUIRED |-> "E_AUTH_",
   E_AUTH_INVALID |-> "E_AUTH_", E_NOT_FOUND_RESOURCE |-> "E_NOT_FOUND_",
   E_UPSTREAM_NETWORK |-> "E_UPSTREAM_", E_UPSTREAM_TIMEOUT |-> "E_UPSTREAM_",
   E_UPSTREAM_BAD_RESPONSE |-> "E_UPSTREAM_", E_UNKNOWN |-> "E_UNKNOWN"]

\* code.startsWith(prefix) for a code of CLI_ERROR_CODES
codeStartsWith(code, prefix) == CodePrefix[code] = prefix

EXIT_CODES ==
  [SUCCESS |-> 0, ARGUMENT_ERROR |-> 2, AUTH_OR_CONFIG_ERROR |-> 3, NOT_FOUND |-> 4,
   UPSTREAM_ERROR |-> 5, UNKNOWN_ERROR |-> 10]

mapErrorCodeToExitCodeUpstreamAsUnknown(code) ==
  IF codeStartsWith(code, "E_ARG_") THEN EXIT_CODES.ARGUMENT_ERROR
  ELSE IF codeStartsWith(code, "E_AUTH_") THEN EXIT_CODES.AUTH_OR_CONFIG_ERROR
  ELSE IF codeStartsWith(code, "E_NOT_FOUND_") THEN EXIT_CODES.NOT_FOUND
  ELSE EXIT_CODES.UNKNOWN_ERROR

mapErrorCodeToExitCode(code) ==
  IF codeStartsWith(code, "E_ARG_") THEN EXIT_CODES.ARGUMENT_ERROR
  ELSE IF codeStartsWith(code, "E_AUTH_") THEN EXIT_CODES.AUTH_OR_CONFIG_ERROR
  ELSE IF codeStartsWith(code, "E_NOT_FOUND_") THEN EXIT_CODES.NOT_FOUND
  ELSE IF codeStartsWith(code, "E_UPSTREAM_") THEN EXIT_CODES.UPSTREAM_ERROR
  ELSE EXIT_CODES.UNKNOWN_ERROR

\* toCliAppError and, in the doctor command, toCliError with its fallback code.
toCliError(value, fallbackCode) ==
  IF value.type = "CliAppError" THEN value
  ELSE IF value.type = "Error"
  THEN [type |-> "CliAppError", code |-> fallbackCode, message |-> value.message,
        details |-> {[name |-> value.name]}]
  ELSE [type |-> "CliAppError", code |-> fallbackCode, message |-> "Unknown error",
        details |-> {value}]

toCliAppError(value) == toCliError(value, "E_UNKNOWN")

----------------------------------------------------------------------------
(* cli.ts: the argument vector and the flags.  A flag value is a boolean,   *)
(* a string or an array of strings; the flags are the entries of a Map in   *)
(* insertion order.  A function that can throw gives                        *)
(* [state |-> "returned", value] or [state |-> "raised", error].            *)

Returned(value) == [state |-> "returned", value |-> value]

Raised(error) == [state |-> "raised", error |-> error]

\* details undefined is the empty set
createArgumentError(code, message, details) ==
  [type |-> "CliAppError", code |-> code, message |-> message, details |-> details]

SHORT_FLAG_ALIASES ==
  << <<<<"-", "h">>, <<"h", "e", "l", "p">>>>, <<<<"-", "V">>, <<"v", "e", "r", "s", "i", "o", "n">>>>, <<<<"-", "v">>, <<"v", "e", "r", "b", "o", "s", "e">>>> >>

\* SHORT_FLAG_ALIASES[token]: the object literal's own entries, then what it
\* inherits under the names constructor and __proto__.
shortFlagAlias(token) ==
  IF aliasOf(token, SHORT_FLAG_ALIASES) # {} THEN aliasOf(token, SHORT_FLAG_ALIASES)
  ELSE aliasOf(token, InheritedProperties)

\* Map.prototype.get: the empty set (undefined) or the value.
flagGet(flags, key) ==
  {flags[i].value : i \in {j \in 1..Len(flags) : flags[j].key = key}}

\* Map.prototype.set
flagSet(flags, key, value) ==
  IF flagGet(flags, key) = {} THEN Append(flags, [key |-> key, value |-> value])
  ELSE [i \in 1..Len(flags) |->
          IF flags[i].key = key THEN [key |-> key, value |-> value] ELSE flags[i]]

BooleanFlag(value) == [type |-> "boolean", value |-> value]

StringFlag(value) == [type |-> "string", value |-> value]

ArrayFlag(value) == [type |-> "array", value |-> value]

\* The new value of a flag that has a value already.
appendedTo(previous, value) ==
  IF previous.type = "array" THEN ArrayFlag(Append(previous.value, value))
  ELSE IF previous.type = "string" THEN ArrayFlag(<<previous.value, value>>)
  ELSE StringFlag(value)

appendFlagValue(flags, key, value) ==
  IF flagGet(flags, key) = {} THEN flagSet(flags, key, StringFlag(value))
  ELSE flagSet(flags, key, appendedTo(CHOOSE v \in flagGet(flags, key) : TRUE, value))

withFlags(parsed, flags) == [parsed EXCEPT !.flags = flags]

\* One token that is no short alias (cli.ts lines 367-395); the result is the
\* parsed state and the number of tokens used.
stepWith(parsed, count) == [parsed |-> parsed, used |-> count]

longFlagStep(parsed, stripped, eqIndex, next) ==
  IF eqIndex >= 0
  THEN stepWith(withFlags(parsed, appendFlagValue(parsed.flags, sliceTo(stripped, eqIndex),
                                                  sliceFrom(stripped, eqIndex + 1))), 1)
  ELSE IF next # {} /\ ~(\E n \in next : startsWith(n, <<"-">>))
  THEN stepWith(withFlags(parsed, appendFlagValue(parsed.flags, stripped,
                                                  CHOOSE n \in next : TRUE)), 2)
  ELSE stepWith(withFlags(parsed, flagSet(parsed.flags, stripped, BooleanFlag(TRUE))), 1)

wordStep(parsed, token) ==
  IF parsed.command = {} THEN stepWith([parsed EXCEPT !.command = {token}], 1)
  ELSE stepWith([parsed EXCEPT !.positional = Append(@, token)], 1)

tokenStep(parsed, token, shortAlias, next) ==
  IF shortAlias # {}
  THEN stepWith(withFlags(parsed, flagSet(parsed.flags, CHOOSE a \in shortAlias : TRUE,
                                          BooleanFlag(TRUE))), 1)
  ELSE IF startsWith(token, <<"-", "-">>)
  THEN longFlagStep(parsed, sliceFrom(token, 2), indexOf(sliceFrom(token, 2), "="), next)
  ELSE wordStep(parsed, token)

RECURSIVE parseArgsFrom(_, _, _)
parseArgsAfter(argv, index, step) == parseArgsFrom(argv, index + step.used, step.parsed)

parseArgsFrom(argv, index, parsed) ==
  IF index > Len(argv) THEN parsed
  ELSE parseArgsAfter(argv, index,
                      tokenStep(parsed, argv[index], shortFlagAlias(argv[index]),
                                IF index < Len(argv) THEN {argv[index + 1]} ELSE {}))

\* command is the empty set (undefined) or the command word.
parseArgs(argv) ==
  parseArgsFrom(argv, 1, [command |-> {}, flags |-> <<>>, positional |-> <<>>])

hasFlag(flags, key) == flagGet(flags, key) # {}

\* The boolean of the text of a flag, or the argument error.
booleanOfText(key, candidate) ==
  IF candidate = {<<"t", "r", "u", "e">>} THEN Returned(TRUE)
  ELSE IF candidate = {<<"f", "a", "l", "s", "e">>} THEN Returned(FALSE)
  ELSE Raised(createArgumentError("E_ARG_INVALID", <<"--", key, " must be true or false">>,
                                  {[arg |-> key, value |-> candidate]}))

\* value.at(-1): the empty set (undefined) for an empty array
lastOf(values) == IF values = <<>> THEN {} ELSE {values[Len(values)]}

booleanOfFlag(key, value) ==
  IF value.type = "boolean" THEN Returned(value.value)
  ELSE IF value.type = "array" THEN booleanOfText(key, lastOf(value.value))
  ELSE booleanOfText(key, {value.value})

getBooleanFlag(flags, key) ==
  IF flagGet(flags, key) = {} THEN Returned(FALSE)
  ELSE booleanOfFlag(key, CHOOSE v \in flagGet(flags, key) : TRUE)

\* The string of a flag value, or the empty set (undefined).
nonBlank(candidate) == {c \in candidate : Len(trim(c)) > 0}

stringOfFlag(value) ==
  IF value.type = "boolean" THEN {}
  ELSE IF value.type = "array" THEN nonBlank(lastOf(value.value))
  ELSE nonBlank({value.value})

getOptionalString(flags, key) ==
  IF flagGet(flags, key) = {} THEN {}
  ELSE stringOfFlag(CHOOSE v \in flagGet(flags, key) : TRUE)

getRequiredString(flags, key) ==
  IF getOptionalString(flags, key) = {}
  THEN Raised(createArgumentError("E_ARG_MISSING", <<"--", key, " is required">>,
                                  {[arg |-> key]}))
  ELSE Returned(CHOOSE v \in getOptionalString(flags, key) : TRUE)

valuesOfFlag(value) ==
  IF value.type = "boolean" THEN <<>>
  ELSE IF value.type = "array" THEN value.value
  ELSE <<value.value>>

IsNotBlank(item) == Len(trim(item)) > 0

getStringValues(flags, key) ==
  IF flagGet(flags, key) = {} THEN <<>>
  ELSE SelectSeq(valuesOfFlag(CHOOSE v \in flagGet(flags, key) : TRUE), IsNotBlank)

\* Number.parseInt(value, 10): the empty set (NaN) or the integer read from
\* the start of the text after its leading whitespace and sign.
RECURSIVE leadingDigits(_)
leadingDigits(text) ==
  IF text = <<>> THEN <<>>
  ELSE IF Head(text) \in Digits THEN <<Head(text)>> \o leadingDigits(Tail(text))
  ELSE <<>>

unsignedOf(digits, sign) == IF digits = <<>> THEN {} ELSE {sign * parseDecimal(digits)}

parseIntOfTrimmed(text) ==
  IF text # <<>> /\ Head(text) = "-" THEN unsignedOf(leadingDigits(Tail(text)), -1)
  ELSE IF text # <<>> /\ Head(text) = "+" THEN unsignedOf(leadingDigits(Tail(text)), 1)
  ELSE unsignedOf(leadingDigits(text), 1)

parseInt(text) == parseIntOfTrimmed(trim(text))

positiveIntegerOf(key, value, parsed) ==
  IF parsed = {} \/ (\E n \in parsed : n <= 0)
  THEN Raised(createArgumentError("E_ARG_INVALID", <<"--", key, " must be a positive integer">>,
                                  {[arg |-> key, value |-> value]}))
  ELSE Returned(parsed)

\* getOptionalPositiveInteger: the value is the empty set (undefined) or the
\* singleton of the number.
getOptionalPositiveInteger(flags, key) ==
  IF getOptionalString(flags, key) = {} THEN Returned({})
  ELSE positiveIntegerOf(key, getOptionalString(flags, key),
                         parseInt(CHOOSE v \in getOptionalString(flags, key) : TRUE))

getPositiveInteger(flags, key, fallback) ==
  IF getOptionalString(flags, key) = {} THEN Returned({fallback})
  ELSE getOptionalPositiveInteger(flags, key)

\* values.flatMap(split(",")).map(trim).filter(non-empty)
RECURSIVE flatSplit(_)
flatSplit(values) ==
  IF values = <<>> THEN <<>>
  ELSE split(Head(values), <<",">>) \o flatSplit(Tail(values))

IsNotEmpty(item) == Len(item) > 0

splitCommaSeparated(values) ==
  SelectSeq([i \in 1..Len(flatSplit(values)) |-> trim(flatSplit(values)[i])], IsNotEmpty)

----------------------------------------------------------------------------
(* cli.ts and the commands: runCli from its argument vector to its exit     *)
(* code.  The providers, the file writer and the file system are the        *)
(* dependencies of the call: each call of one of them is a step that        *)
(* returns or throws.                                                       *)

Argvs ==
  {
    <<>>,
    <<<<"v", "e", "r", "s", "i", "o", "n">>>>,
    <<<<"-", "-", "v", "e", "r", "s", "i", "o", "n">>, <<"-", "-", "j", "s", "o", "n">>>>,
    <<<<"h", "e", "l", "p">>, <<"s", "e", "a", "r", "c", "h">>>>,
    <<<<"-", "h">>>>,
    <<<<"c", "o", "n", "s", "t", "r", "u", "c", "t", "o", "r">>>>,
    <<<<"p", "r", "o", "v", "i", "d", "e", "r", "s">>>>,
    <<<<"p", "r", "o", "v", "i", "d", "e", "r", "s">>, <<"-", "-", "j", "s", "o", "n">>>>,
    <<<<"p", "r", "o", "v", "i", "d", "e", "r", "s">>, <<"l", "i", "s", "t">>>>,
    <<<<"b", "o", "g", "u", "s">>>>,
    <<<<"s", "e", "a", "r", "c", "h">>>>,
    <<<<"s", "e", "a", "r", "c", "h">>, <<"-", "-", "q", "u", "e", "r", "y">>, <<"m", "a", "t", "r", "i", "x">>, <<"-", "-", "p", "r", "o", "v", "i", "d", "e", "r">>, <<"u", "n", "k", "n", "o", "w", "n">>>>,
    <<<<"s", "e", "a", "r", "c", "h">>, <<"-", "-", "q", "u", "e", "r", "y">>, <<"m", "a", "t", "r", "i", "x">>, <<"-", "-", "l", "i", "m", "i", "t">>, <<"0">>, <<"-", "-", "j", "s", "o", "n">>>>,
    <<<<"s", "e", "a", "r", "c", "h">>, <<"-", "-", "q", "u", "e", "r", "y">>, <<"T", "h", "e", " ", "M", "a", "t", "r", "i", "x">>, <<"-", "-", "p", "r", "o", "v", "i", "d", "e", "r">>, <<"a", "s", "s", "r", "t">>, <<"-", "-", "j", "s", "o", "n">>>>,
    <<<<"s", "e", "a", "r", "c", "h">>, <<"-", "-", "q", "u", "e", "r", "y">>, <<"T", "h", "e", " ", "M", "a", "t", "r", "i", "x">>, <<"-", "-", "l", "a", "n", "g">>, <<"e", "n", ",", "c", "h", "s">>, <<"-", "-", "l", "a", "n", "g">>, <<"z", "h", "-", "c", "n">>, <<"-", "-", "l", "i", "m", "i", "t", "=", "2">>>>,
    <<<<"s", "e", "a", "r", "c", "h">>, <<"-", "-", "q", "u", "e", "r", "y">>, <<"m", "a", "t", "r", "i", "x">>, <<"-", "-", "p", "r", "o", "v", "i", "d", "e", "r">>, <<"c", "o", "n", "s", "t", "r", "u", "c", "t", "o", "r">>>>,
    <<<<"s", "e", "a", "r", "c", "h">>, <<"-", "-", "q", "u", "e", "r", "y">>, <<"m", "a", "t", "r", "i", "x">>, <<"-", "-", "j", "s", "o", "n">>, <<"m", "a", "y", "b", "e">>>>,
    <<<<"s", "e", "a", "r", "c", "h">>, <<"-", "-", "q", "u", "e", "r", "y">>, <<"m", "a", "t", "r", "i", "x">>, <<"-", "-", "v", "e", "r", "b", "o", "s", "e", "=", "1">>, <<"-", "-", "j", "s", "o", "n">>>>,
    <<<<"s", "e", "a", "r", "c", "h">>, <<"-", "-", "q", "u", "e", "r", "y">>, <<"m", "a", "t", "r", "i", "x">>, <<"-", "-", "y", "e", "a", "r">>, <<"a", "b", "c">>>>,
    <<<<"d", "o", "w", "n", "l", "o", "a", "d">>, <<"-", "-", "i", "d">>, <<"a", "s", "s", "r", "t", "-", "1", "0", "0", "1">>, <<"-", "-", "o", "u", "t", "p", "u", "t">>, <<"o", "u", "t", ".", "s", "r", "t">>, <<"-", "-", "d", "r", "y", "-", "r", "u", "n">>, <<"-", "-", "j", "s", "o", "n">>>>,
    <<<<"d", "o", "w", "n", "l", "o", "a", "d">>, <<"-", "-", "i", "d">>, <<"a", "s", "s", "r", "t", "-", "1", "0", "0", "1">>, <<"-", "-", "o", "u", "t", "p", "u", "t">>, <<"o", "u", "t", ".", "s", "r", "t">>, <<"-", "-", "d", "r", "y", "-", "r", "u", "n">>>>,
    <<<<"d", "o", "w", "n", "l", "o", "a", "d">>, <<"-", "-", "i", "d">>, <<"a", "s", "s", "r", "t", "-", "1", "0", "0", "1">>, <<"-", "-", "o", "u", "t", "p", "u", "t">>, <<"o", "u", "t", ".", "s", "r", "t">>>>,
    <<<<"d", "o", "w", "n", "l", "o", "a", "d">>, <<"-", "-", "i", "d">>, <<"a", "s", "s", "r", "t", "-", "1", "0", "0", "1">>, <<"-", "-", "o", "u", "t", "p", "u", "t">>, <<"o", "u", "t", ".", "s", "r", "t">>, <<"-", "-", "j", "s", "o", "n">>, <<"-", "-", "d", "r", "y", "-", "r", "u", "n", "=", "f", "a", "l", "s", "e">>>>,
    <<<<"d", "o", "w", "n", "l", "o", "a", "d">>, <<"-", "-", "i", "d">>, <<"a", "s", "s", "r", "t", "-", "1", "0", "0", "1">>, <<"-", "-", "o", "u", "t", "p", "u", "t">>, <<"o", "u", "t", ".", "s", "r", "t">>, <<"-", "-", "d", "r", "y", "-", "r", "u", "n">>, <<"m", "a", "y", "b", "e">>>>,
    <<<<"d", "o", "w", "n", "l", "o", "a", "d">>, <<"-", "-", "o", "u", "t", "p", "u", "t">>, <<"o", "u", "t", ".", "s", "r", "t">>, <<"-", "-", "d", "r", "y", "-", "r", "u", "n">>>>,
    <<<<"d", "o", "w", "n", "l", "o", "a", "d">>, <<"-", "-", "i", "d">>, <<"a", "s", "s", "r", "t", "-", "1", "0", "0", "1">>, <<"-", "-", "o", "u", "t", "p", "u", "t">>, <<" ">>, <<"-", "-", "d", "r", "y", "-", "r", "u", "n">>>>,
    <<<<"f", "e", "t", "c", "h">>, <<"-", "-", "q", "u", "e", "r", "y">>, <<"T", "h", "e", " ", "M", "a", "t", "r", "i", "x">>, <<"-", "-", "o", "u", "t", "p", "u", "t">>, <<"o", "u", "t", ".", "s", "r", "t">>, <<"-", "-", "d", "r", "y", "-", "r", "u", "n">>, <<"-", "-", "j", "s", "o", "n">>>>,
    <<<<"f", "e", "t", "c", "h">>, <<"-", "-", "q", "u", "e", "r", "y">>, <<"T", "h", "e", " ", "M", "a", "t", "r", "i", "x">>, <<"-", "-", "o", "u", "t", "p", "u", "t">>, <<"o", "u", "t", ".", "s", "r", "t">>, <<"-", "-", "d", "r", "y", "-", "r", "u", "n">>, <<"-", "-", "l", "i", "m", "i", "t">>, <<"1">>>>,
    <<<<"f", "e", "t", "c", "h">>, <<"-", "-", "q", "u", "e", "r", "y">>, <<"T", "h", "e", " ", "M", "a", "t", "r", "i", "x">>, <<"-", "-", "o", "u", "t", "p", "u", "t">>, <<"o", "u", "t", ".", "s", "r", "t">>, <<"-", "-", "l", "a", "n", "g">>, <<"E", "N">>, <<"-", "-", "j", "s", "o", "n">>>>,
    <<<<"f", "e", "t", "c", "h">>, <<"-", "-", "q", "u", "e", "r", "y">>, <<"T", "h", "e", " ", "M", "a", "t", "r", "i", "x">>, <<"-", "-", "o", "u", "t", "p", "u", "t">>, <<"o", "u", "t", ".", "s", "r", "t">>>>,
    <<<<"f", "e", "t", "c", "h">>, <<"-", "-", "q", "u", "e", "r", "y">>, <<"T", "h", "e", " ", "M", "a", "t", "r", "i", "x">>, <<"-", "-", "d", "r", "y", "-", "r", "u", "n">>>>,
    <<<<"f", "e", "t", "c", "h">>, <<"-", "-", "q", "u", "e", "r", "y">>, <<"T", "h", "e", " ", "M", "a", "t", "r", "i", "x">>, <<"-", "-", "o", "u", "t", "p", "u", "t">>, <<"o", "u", "t", ".", "s", "r", "t">>, <<"-", "-", "l", "i", "m", "i", "t">>, <<"-", "1">>, <<"-", "-", "d", "r", "y", "-", "r", "u", "n">>>>,
    <<<<"d", "o", "c", "t", "o", "r">>>>,
    <<<<"d", "o", "c", "t", "o", "r">>, <<"-", "-", "p", "r", "o", "v", "i", "d", "e", "r">>, <<"a", "s", "s", "r", "t">>, <<"-", "-", "j", "s", "o", "n">>>>,
    <<<<"d", "o", "c", "t", "o", "r">>, <<"-", "-", "p", "r", "o", "v", "i", "d", "e", "r">>, <<"s", "t", "u", "b">>>>,
    <<<<"d", "o", "c", "t", "o", "r">>, <<"n", "o", "w">>>> }

\* deps.providers: the two catalogs and a stub without a doctor method.
Providers ==
  << <<<<"s", "u", "b", "h", "d">>, [id |-> "subhd", doctor |-> TRUE]>>,
     <<<<"a", "s", "s", "r", "t">>, [id |-> "assrt", doctor |-> TRUE]>>,
     <<<<"s", "t", "u", "b">>, [id |-> "stub", doctor |-> FALSE]>> >>

\* What a dependency can throw: a CliAppError of any code, another Error, a
\* value that is no Error.
ThrownValues ==
  {[type |-> "CliAppError", code |-> CLI_ERROR_CODES[i], message |-> "failed",
    details |-> {[provider |-> "subhd"]}] : i \in 1..Len(CLI_ERROR_CODES)}
  \cup {[type |-> "Error", name |-> "TypeError", message |-> "fetch failed"],
        [type |-> "value", message |-> "boom"]}

NotAFunction == [type |-> "Error", name |-> "TypeError", message |-> "is not a function"]

\* The lists a provider's search can return.
SearchResults == {<<>>, candidatesAt(<<4>>), candidatesAt(<<5, 1, 4>>)}

\* The plan and the payload of a provider for an id, as the providers build them.
stubPlan(provider, id) ==
  [id |-> id, providerId |-> provider.id, fileName |-> id \o <<".", "s", "r", "t">>,
   sourceUrl |-> <<"h", "t", "t", "p", "s", ":", "/", "/", "m", "o", "c", "k", "/", "s", "u", "b", "/">> \o id, format |-> "srt"]

ByteLengths == {0, 7}

stubPayload(provider, id, byteLength) ==
  [id |-> id, providerId |-> provider.id, fileName |-> id \o <<".", "s", "r", "t">>,
   sourceUrl |-> <<"h", "t", "t", "p", "s", ":", "/", "/", "m", "o", "c", "k", "/", "s", "u", "b", "/">> \o id, format |-> "srt",
   content |-> [byteLength |-> byteLength]]

\* resolveProvider: providerMap.subhd ?? providerMap.assrt without an id,
\* providerMap[providerId] with one, inherited properties included.
resolveProvider(providerMap, providerId) ==
  IF providerId = {} \/ (\E p \in providerId : Len(trim(p)) = 0)
  THEN aliasOf(<<"s", "u", "b", "h", "d">>, providerMap)
  ELSE IF aliasOf(CHOOSE p \in providerId : TRUE, providerMap) # {}
  THEN aliasOf(CHOOSE p \in providerId : TRUE, providerMap)
  ELSE aliasOf(CHOOSE p \in providerId : TRUE, InheritedProperties)

getProviderOrThrow(flags, providers) ==
  IF resolveProvider(providers, getOptionalString(flags, <<"p", "r", "o", "v", "i", "d", "e", "r">>)) # {}
  THEN Returned(CHOOSE p \in resolveProvider(providers, getOptionalString(flags, <<"p", "r", "o", "v", "i", "d", "e", "r">>)) : TRUE)
  ELSE Raised(createArgumentError("E_ARG_INVALID", <<"Unknown provider: ", getOptionalString(flags, <<"p", "r", "o", "v", "i", "d", "e", "r">>)>>,
                                  {[arg |-> <<"p", "r", "o", "v", "i", "d", "e", "r">>, value |-> getOptionalString(flags, <<"p", "r", "o", "v", "i", "d", "e", "r">>)]}))

\* A provider of the map, and not something the map inherits.
isProvider(provider) == provider \notin {ObjectConstructor, ObjectPrototype}

\* The first of the results, in the order of evaluation, that is raised.
firstRaised(results) ==
  LET raised == {i \in 1..Len(results) : results[i].state = "raised"}
  IN IF raised = {} THEN {}
     ELSE {results[CHOOSE i \in raised : \A j \in raised : i <= j].error}

\* The state of one call of runCli.
NewCall ==
  [pc |-> "start", json |-> FALSE, command |-> "", provider |-> {}, request |-> {},
   limit |-> 0, dryRun |-> FALSE, outputPath |-> <<>>, candidates |-> <<>>, selected |-> {},
   artifact |-> {}, checks |-> <<>>, calls |-> <<>>, stdout |-> <<>>, stderr |-> <<>>,
   exit |-> {}, error |-> {}, thrown |-> {}, searched |-> {}]

\* runCli returns EXIT_CODES.SUCCESS after writing the result (lines 119-125).
succeed(call, data) ==
  [call EXCEPT !.pc = "returned",
               !.stdout = Append(@, IF call.json THEN [envelope |-> [ok |-> TRUE, data |-> data]]
                                    ELSE [text |-> data]),
               !.exit = {EXIT_CODES.SUCCESS}]

caughtAlsoOnStderr(call, appError) ==
  [call EXCEPT !.pc = "returned",
               !.error = {appError},
               !.stdout = IF call.json
                          THEN Append(@, [envelope |-> [ok |-> FALSE,
                                                        error |-> [code |-> appError.code,
                                                                   message |-> appError.message,
                                                                   details |-> appError.details]]])
                          ELSE @,
               !.stderr = Append(@, [text |-> [code |-> appError.code,
                                               message |-> appError.message,
                                               details |-> appError.details]]),
               !.exit = {mapErrorCodeToExitCode(appError.code)}]

\* The catch block of runCli (lines 127-140).
caught(call, appError) ==
  [call EXCEPT !.pc = "returned",
               !.error = {appError},
               !.stdout = IF call.json
                          THEN Append(@, [envelope |-> [ok |-> FALSE,
                                                        error |-> [code |-> appError.code,
                                                                   message |-> appError.message,
                                                                   details |-> appError.details]]])
                          ELSE @,
               !.stderr = IF call.json THEN @
                          ELSE Append(@, [text |-> [code |-> appError.code,
                                                    message |-> appError.message,
                                                    details |-> appError.details]]),
               !.exit = {mapErrorCodeToExitCode(appError.code)}]

\* The call remembers what was thrown.
fail(call, thrown) == caught([call EXCEPT !.thrown = {thrown}], toCliAppError(thrown))

\* An error thrown before the try block leaves runCli.
reject(call, thrown) == [call EXCEPT !.pc = "rejected", !.error = {thrown}]

\* A call of a dependency is started: the call is logged and runCli waits.
await(call, name, argument) ==
  [call EXCEPT !.pc = name, !.calls = Append(@, [name |-> name, argument |-> argument])]

\* A method of the provider is called: what the map inherits has none.
callProvider(call, name, argument) ==
  IF isProvider(CHOOSE p \in call.provider : TRUE) THEN await(call, name, argument)
  ELSE fail(call, NotAFunction)

----------------------------------------------------------------------------
(* The commands, up to their first call of a dependency.                    *)

unsupportedSubcommand(parsed, name) ==
  createArgumentError("E_ARG_UNSUPPORTED", <<name, " command does not accept subcommands">>,
                      {[positional |-> parsed.positional]})

\* listProviders: the descriptors sorted by id; the key of a provider in the
\* map is its id.
listProviders(providerMap) ==
  [i \in 1..Len(providerMap) |->
     CHOOSE d \in aliasOf(sortStrings([j \in 1..Len(providerMap) |-> providerMap[j][1]])[i],
                         providerMap) : TRUE]

runProvidersCommand(descriptors) == [total |-> Len(descriptors), providers |-> descriptors]

dispatchProviders(call, parsed) ==
  IF Len(parsed.positional) > 0 THEN fail(call, unsupportedSubcommand(parsed, "providers"))
  ELSE succeed(call, runProvidersCommand(listProviders(Providers)))

\* runSearchCommand up to provider.search.
runSearchCommand(call, limit) ==
  IF limit <= 0
  THEN fail(call, createArgumentError("E_ARG_INVALID", "--limit must be a positive integer",
                                      {[arg |-> <<"l", "i", "m", "i", "t">>, value |-> limit]}))
  ELSE callProvider([call EXCEPT !.limit = limit], "search", CHOOSE r \in call.request : TRUE)

startTransferAlwaysDownloads(call, id) == callProvider(call, "downloadSubtitle", id)

\* runDownloadCommand up to its first call of the provider: the plan alone
\* with dry-run, the download without.
startTransfer(call, id) ==
  IF call.dryRun THEN callProvider(call, "getDownloadPlan", id)
  ELSE callProvider(call, "downloadSubtitle", id)

runDownloadCommand(call, id) ==
  IF Len(trim(id)) = 0
  THEN fail(call, createArgumentError("E_ARG_MISSING", "--id is required", {[arg |-> <<"i", "d">>]}))
  ELSE IF Len(trim(call.outputPath)) = 0
  THEN fail(call, createArgumentError("E_ARG_MISSING", "--output is required", {[arg |-> <<"o", "u", "t", "p", "u", "t">>]}))
  ELSE startTransfer(call, id)

\* runFetchCommand up to provider.search.
runFetchCommand(call, limit) ==
  IF Len(trim(call.outputPath)) = 0
  THEN fail(call, createArgumentError("E_ARG_MISSING", "--output is required", {[arg |-> <<"o", "u", "t", "p", "u", "t">>]}))
  ELSE runSearchCommand(call, limit)

\* The flags of the search and of the fetch command that make the request.
requestArguments(flags) ==
  <<getRequiredString(flags, <<"q", "u", "e", "r", "y">>), getOptionalPositiveInteger(flags, <<"y", "e", "a", "r">>),
    getOptionalPositiveInteger(flags, <<"s", "e", "a", "s", "o", "n">>), getOptionalPositiveInteger(flags, <<"e", "p", "i", "s", "o", "d", "e">>)>>

requestInput(flags, arguments) ==
  [query |-> arguments[1].value, year |-> arguments[2].value, season |-> arguments[3].value,
   episode |-> arguments[4].value,
   languages |-> {splitCommaSeparated(getStringValues(flags, <<"l", "a", "n", "g">>)
                                      \o getStringValues(flags, <<"l", "a", "n", "g", "u", "a", "g", "e">>))}]

DEFAULT_SEARCH_LIMIT == 10

DEFAULT_FETCH_LIMIT == 5

\* The outcomes of the search command once its arguments are read.
searchWith(call, limit, normalized) ==
  IF normalized.state = "raised" THEN fail(call, normalized.error)
  ELSE runSearchCommand([call EXCEPT !.request = {normalized.value}], limit)

dispatchSearch(call, parsed, arguments) ==
  IF Len(parsed.positional) > 0 THEN {fail(call, unsupportedSubcommand(parsed, "search"))}
  ELSE IF firstRaised(arguments) # {} THEN {fail(call, CHOOSE e \in firstRaised(arguments) : TRUE)}
  ELSE {searchWith([call EXCEPT !.provider = {arguments[1].value}],
                   CHOOSE n \in arguments[6].value : TRUE, normalized) :
          normalized \in normalizeOutcomes(requestInput(parsed.flags, SubSeq(arguments, 2, 5)))}

dispatchDownload(call, parsed, arguments) ==
  IF Len(parsed.positional) > 0 THEN fail(call, unsupportedSubcommand(parsed, "download"))
  ELSE IF firstRaised(arguments) # {} THEN fail(call, CHOOSE e \in firstRaised(arguments) : TRUE)
  ELSE runDownloadCommand([call EXCEPT !.provider = {arguments[1].value},
                                       !.outputPath = arguments[3].value,
                                       !.dryRun = arguments[4].value],
                          arguments[2].value)

fetchWith(call, limit, normalized) ==
  IF normalized.state = "raised" THEN fail(call, normalized.error)
  ELSE runFetchCommand([call EXCEPT !.request = {normalized.value}], limit)

dispatchFetch(call, parsed, arguments) ==
  IF Len(parsed.positional) > 0 THEN {fail(call, unsupportedSubcommand(parsed, "fetch"))}
  ELSE IF firstRaised(arguments) # {} THEN {fail(call, CHOOSE e \in firstRaised(arguments) : TRUE)}
  ELSE {fetchWith([call EXCEPT !.provider = {arguments[1].value},
                               !.outputPath = arguments[6].value,
                               !.dryRun = arguments[7].value],
                  CHOOSE n \in arguments[8].value : TRUE, normalized) :
          normalized \in normalizeOutcomes(requestInput(parsed.flags, SubSeq(arguments, 2, 5)))}

\* checkNodeVersion for a runtime that satisfies the minimum, or not.
checkNodeVersion(satisfied) ==
  IF satisfied THEN [id |-> "node-version", level |-> "info", ok |-> TRUE, errorCode |-> {}]
  ELSE [id |-> "node-version", level |-> "error", ok |-> FALSE, errorCode |-> {"E_UNKNOWN"}]

countLevel(checks, level) == Cardinality({i \in 1..Len(checks) : checks[i].level = level})

summarizeChecks(checks) ==
  [total |-> Len(checks), infos |-> countLevel(checks, "info"),
   warnings |-> countLevel(checks, "warn"),
   errors |-> Len(checks) - countLevel(checks, "info") - countLevel(checks, "warn")]

\* errorCheck?.errorCode ?? (errorCheck ? "E_UNKNOWN" : undefined)
getDoctorFailureCode(report) ==
  LET errors == {i \in 1..Len(report.checks) : report.checks[i].level = "error"}
      errorCheck == report.checks[CHOOSE i \in errors : \A j \in errors : i <= j]
  IN IF errors = {} THEN {}
     ELSE IF errorCheck.errorCode = {} THEN {"E_UNKNOWN"}
     ELSE errorCheck.errorCode

\* dispatchDoctor once runDoctorCommand has its checks (cli.ts lines 194-207).
doctorReported(call, output, failureCode) ==
  IF failureCode # {}
  THEN fail(call, [type |-> "CliAppError", code |-> CHOOSE c \in failureCode : TRUE,
                   message |-> <<"Doctor found ", output.summary.errors, " error(s).">>,
                   details |-> {output}])
  ELSE succeed(call, output)

doctorOutput(checks) == [checks |-> checks, summary |-> summarizeChecks(checks)]

doctorFinished(call, checks) ==
  doctorReported(call, doctorOutput(checks), getDoctorFailureCode(doctorOutput(checks)))

\* runDoctorCommand up to provider.doctor.
runDoctorCommand(call, provider, satisfied) ==
  IF ~isProvider(provider) THEN fail(call, NotAFunction)
  ELSE IF ~provider.doctor
  THEN doctorFinished(call, <<checkNodeVersion(satisfied),
                              [id |-> "provider-registered", level |-> "info", ok |-> TRUE, errorCode |-> {}],
                              [id |-> "provider-health", level |-> "warn", ok |-> FALSE, errorCode |-> {}]>>)
  ELSE await([call EXCEPT !.checks = <<checkNodeVersion(satisfied),
                                       [id |-> "provider-registered", level |-> "info", ok |-> TRUE,
                                        errorCode |-> {}]>>],
             "doctor", <<>>)

dispatchDoctor(call, parsed, provider) ==
  IF Len(parsed.positional) > 0 THEN {fail(call, unsupportedSubcommand(parsed, "doctor"))}
  ELSE IF provider.state = "raised" THEN {fail(call, provider.error)}
  ELSE {runDoctorCommand([call EXCEPT !.provider = {provider.value}], provider.value, satisfied) :
          satisfied \in BOOLEAN}

downloadArguments(flags) ==
  <<getProviderOrThrow(flags, Providers), getRequiredString(flags, <<"i", "d">>),
    getRequiredString(flags, <<"o", "u", "t", "p", "u", "t">>), getBooleanFlag(flags, <<"d", "r", "y", "-", "r", "u", "n">>)>>

searchArguments(flags) ==
  <<getProviderOrThrow(flags, Providers)>> \o requestArguments(flags)
  \o <<getPositiveInteger(flags, <<"l", "i", "m", "i", "t">>, DEFAULT_SEARCH_LIMIT)>>

fetchArguments(flags) ==
  <<getProviderOrThrow(flags, Providers)>> \o requestArguments(flags)
  \o <<getRequiredString(flags, <<"o", "u", "t", "p", "u", "t">>), getBooleanFlag(flags, <<"d", "r", "y", "-", "r", "u", "n">>),
       getPositiveInteger(flags, <<"l", "i", "m", "i", "t">>, DEFAULT_FETCH_LIMIT)>>

\* dispatch: the states in which runCli waits or has returned.
dispatch(call, parsed) ==
  IF parsed.command = {<<"p", "r", "o", "v", "i", "d", "e", "r", "s">>} THEN {dispatchProviders([call EXCEPT !.command = "providers"], parsed)}
  ELSE IF parsed.command = {<<"d", "o", "c", "t", "o", "r">>}
  THEN dispatchDoctor([call EXCEPT !.command = "doctor"], parsed,
                      getProviderOrThrow(parsed.flags, Providers))
  ELSE IF parsed.command = {<<"s", "e", "a", "r", "c", "h">>}
  THEN dispatchSearch([call EXCEPT !.command = "search"], parsed, searchArguments(parsed.flags))
  ELSE IF parsed.command = {<<"d", "o", "w", "n", "l", "o", "a", "d">>}
  THEN {dispatchDownload([call EXCEPT !.command = "download"], parsed,
                         downloadArguments(parsed.flags))}
  ELSE IF parsed.command = {<<"f", "e", "t", "c", "h">>}
  THEN dispatchFetch([call EXCEPT !.command = "fetch"], parsed, fetchArguments(parsed.flags))
  ELSE {fail(call, createArgumentError("E_ARG_UNSUPPORTED", <<"Unknown command: ", parsed.command>>,
                                       {[command |-> parsed.command]}))}

\* resolveHelpTarget: the empty set, or the command the help is about.
resolveHelpTarget(parsed) ==
  IF parsed.command = {<<"h", "e", "l", "p">>}
  THEN (IF parsed.positional = <<>> THEN {} ELSE {parsed.positional[1]})
  ELSE IF hasFlag(parsed.flags, <<"h", "e", "l", "p">>) THEN parsed.command
  ELSE {}

\* runCli once its two boolean flags are read (lines 85-126).
runCliWith(call, parsed) ==
  IF hasFlag(parsed.flags, <<"v", "e", "r", "s", "i", "o", "n">>) \/ parsed.command = {<<"v", "e", "r", "s", "i", "o", "n">>}
  THEN {succeed(call, [name |-> "subtitle-cli"])}
  ELSE IF parsed.command = {} \/ parsed.command = {<<"h", "e", "l", "p">>} \/ hasFlag(parsed.flags, <<"h", "e", "l", "p">>)
  THEN {succeed(call, [help |-> resolveHelpTarget(parsed)])}
  ELSE dispatch(call, parsed)

\* runCli up to its first call of a dependency (lines 74-126).
runCli(argv) ==
  LET parsed == parseArgs(argv)
      json == getBooleanFlag(parsed.flags, <<"j", "s", "o", "n">>)
      verbose == getBooleanFlag(parsed.flags, <<"v", "e", "r", "b", "o", "s", "e">>)
  IN IF json.state = "raised" THEN {reject(NewCall, json.error)}
     ELSE IF verbose.state = "raised" THEN {reject(NewCall, verbose.error)}
     ELSE runCliWith([NewCall EXCEPT !.json = json.value], parsed)

----------------------------------------------------------------------------
(* The commands after a call of a dependency has settled.                   *)

requestOf(call) == CHOOSE r \in call.request : TRUE

providerOf(call) == CHOOSE p \in call.provider : TRUE

\* runSearchCommand after provider.search (part_007 lines 222-231).
searchOutput(call, candidates, ranked) ==
  [provider |-> providerOf(call).id, request |-> requestOf(call), returned |-> Len(ranked),
   totalCandidates |-> Len(candidates), items |-> ranked]

fetchSelectedLast(call, ranked) ==
  IF ranked = <<>>
  THEN fail(call, [type |-> "CliAppError", code |-> "E_NOT_FOUND_RESOURCE",
                   message |-> "No subtitle candidates found for the request",
                   details |-> {[query |-> requestOf(call).query,
                                 provider |-> providerOf(call).id]}])
  ELSE startTransfer([call EXCEPT !.candidates = ranked, !.selected = {ranked[Len(ranked)]}],
                     ranked[Len(ranked)].id)

\* runFetchCommand after provider.search (part_007 lines 634-654).
fetchSelected(call, ranked) ==
  IF ranked = <<>>
  THEN fail(call, [type |-> "CliAppError", code |-> "E_NOT_FOUND_RESOURCE",
                   message |-> "No subtitle candidates found for the request",
                   details |-> {[query |-> requestOf(call).query,
                                 provider |-> providerOf(call).id]}])
  ELSE startTransfer([call EXCEPT !.candidates = ranked, !.selected = {ranked[1]}],
                     ranked[1].id)

searchedWith(call, candidates) == [call EXCEPT !.searched = {candidates}]

\* provider.search has returned: the call remembers the list it returned.
searchReturned(call, candidates) ==
  IF call.command = "search"
  THEN succeed(searchedWith(call, candidates),
               searchOutput(call, candidates,
                            rankSubtitleCandidates(requestOf(call), candidates, {call.limit})))
  ELSE fetchSelected(searchedWith(call, candidates),
                     rankSubtitleCandidates(requestOf(call), candidates, {call.limit}))

\* The plan or the payload is there: resolveOutputPath is called with the
\* output path and the file name.
transferReturned(call, artifact) ==
  await([call EXCEPT !.artifact = {artifact}], "resolveOutputPath",
        <<call.outputPath, artifact.fileName>>)

artifactOf(call) == CHOOSE a \in call.artifact : TRUE

\* The output of the download and of the fetch command.
transferOutput(call, outputPath, dryRun, bytesWritten) ==
  [provider |-> providerOf(call).id, id |-> artifactOf(call).id, outputPath |-> outputPath,
   fileName |-> artifactOf(call).fileName, sourceUrl |-> artifactOf(call).sourceUrl,
   format |-> artifactOf(call).format, dryRun |-> dryRun, bytesWritten |-> bytesWritten,
   selected |-> call.selected, candidates |-> call.candidates]

\* resolveDownloadOutputPath (cli.ts lines 319-333) for what stat finds at
\* the path: a directory, a file, nothing, or an error other than ENOENT.
StatResults == {"directory", "file", "ENOENT", "EACCES"}

resolveDownloadOutputPath(path, fileName, found) ==
  IF found = "directory" THEN Returned(path \o <<"/">> \o fileName)
  ELSE IF found = "EACCES"
  THEN Raised([type |-> "Error", name |-> "Error", message |-> "EACCES: permission denied"])
  ELSE Returned(path)

\* After resolveOutputPath: the dry run returns, the download writes.
pathResolved(call, resolved) ==
  IF resolved.state = "raised" THEN fail(call, resolved.error)
  ELSE IF call.dryRun
  THEN succeed([call EXCEPT !.outputPath = resolved.value],
               transferOutput(call, resolved.value, TRUE, 0))
  ELSE await([call EXCEPT !.outputPath = resolved.value], "writeFile",
             <<resolved.value, artifactOf(call).content>>)

\* What the file writer does: it writes, or fails with EISDIR or otherwise.
WriteResults == {"written", "EISDIR", "EACCES"}

fileWritten(call, result) ==
  IF result = "EISDIR"
  THEN fail(call, createArgumentError("E_ARG_INVALID",
                                      "--output must be a file path, not a directory",
                                      {[arg |-> <<"o", "u", "t", "p", "u", "t">>, outputPath |-> call.outputPath]}))
  ELSE IF result = "EACCES"
  THEN fail(call, [type |-> "Error", name |-> "Error", message |-> "EACCES: permission denied"])
  ELSE succeed(call, transferOutput(call, call.outputPath, FALSE,
                                    artifactOf(call).content.byteLength))

\* runDoctorCommand after provider.doctor (part_007 lines 338-358).
healthCheckOf(report) ==
  [id |-> "provider-health", level |-> IF report.ok THEN "info" ELSE "error", ok |-> report.ok,
   errorCode |-> IF report.ok THEN {} ELSE {"E_UPSTREAM_BAD_RESPONSE"}]

healthCheckOfError(appError) ==
  [id |-> "provider-health", level |-> "error", ok |-> FALSE, errorCode |-> {appError.code}]

----------------------------------------------------------------------------
(* One call of runCli.                                                      *)

CliInit ==
  /\ IdleInit("retry")
  /\ cfg.retries = DefaultRetries
  /\ cfg.backoffMs = DefaultBackoffMs
  /\ \E argv \in Argvs : fin = [fn |-> "runCli", argv |-> argv]
  /\ fout = NewCall

\* runCli from its start to its first call of a dependency, or to its end.
RunCli ==
  /\ fin.fn = "runCli"
  /\ fout.pc = "start"
  /\ fout' \in runCli(fin.argv)
  /\ UNCHANGED <<clientVars, scenario, pop, fin, ghostJar>>

\* provider.search returns a list or throws.
SearchSettles ==
  /\ fin.fn = "runCli"
  /\ fout.pc = "search"
  /\ \/ \E candidates \in SearchResults : fout' = searchReturned(fout, candidates)
     \/ \E thrown \in ThrownValues : fout' = fail(fout, thrown)
  /\ UNCHANGED <<clientVars, scenario, pop, fin, ghostJar>>

\* provider.getDownloadPlan returns the plan or throws.
PlanSettles ==
  /\ fin.fn = "runCli"
  /\ fout.pc = "getDownloadPlan"
  /\ \/ fout' = transferReturned(fout, stubPlan(providerOf(fout),
                                                fout.calls[Len(fout.calls)].argument))
     \/ \E thrown \in ThrownValues : fout' = fail(fout, thrown)
  /\ UNCHANGED <<clientVars, scenario, pop, fin, ghostJar>>

\* provider.downloadSubtitle returns the payload or throws.
DownloadSettles ==
  /\ fin.fn = "runCli"
  /\ fout.pc = "downloadSubtitle"
  /\ \/ \E byteLength \in ByteLengths :
          fout' = transferReturned(fout, stubPayload(providerOf(fout),
                                                     fout.calls[Len(fout.calls)].argument,
                                                     byteLength))
     \/ \E thrown \in ThrownValues : fout' = fail(fout, thrown)
  /\ UNCHANGED <<clientVars, scenario, pop, fin, ghostJar>>

\* stat has answered in resolveDownloadOutputPath.
PathSettles ==
  /\ fin.fn = "runCli"
  /\ fout.pc = "resolveOutputPath"
  /\ \E found \in StatResults :
       fout' = pathResolved(fout, resolveDownloadOutputPath(fout.outputPath,
                                                            artifactOf(fout).fileName, found))
  /\ UNCHANGED <<clientVars, scenario, pop, fin, ghostJar>>

\* The file writer has written or failed.
WriteSettles ==
  /\ fin.fn = "runCli"
  /\ fout.pc = "writeFile"
  /\ \E result \in WriteResults : fout' = fileWritten(fout, result)
  /\ UNCHANGED <<clientVars, scenario, pop, fin, ghostJar>>

\* provider.doctor returns its report or throws.
DoctorSettles ==
  /\ fin.fn = "runCli"
  /\ fout.pc = "doctor"
  /\ \/ \E ok \in BOOLEAN :
          fout' = doctorFinished(fout, Append(fout.checks, healthCheckOf([ok |-> ok])))
     \/ \E thrown \in ThrownValues :
          fout' = doctorFinished(fout, Append(fout.checks,
                                              healthCheckOfError(toCliError(thrown, "E_UPSTREAM_NETWORK"))))
  /\ UNCHANGED <<clientVars, scenario, pop, fin, ghostJar>>

CliNext ==
  \/ RunCli
  \/ SearchSettles
  \/ PlanSettles
  \/ DownloadSettles
  \/ PathSettles
  \/ WriteSettles
  \/ DoctorSettles

CliSpec == CliInit /\ [][CliNext]_vars

(***************************************************************************)
(* Properties of request(): attempts, retries, backoff, classification.   *)
(***************************************************************************)

\* The statuses the specification calls retriable.
RetriableStatuses == {408, 425, 429, 500, 502, 503, 504}

\* The latest attempt of the call ended in a failure the specification calls
\* retriable: the transport threw, the timer aborted it, or the response had a
\* retriable status.
LastFailedRetriably ==
  \/ last.kind \in {"throw", "abort"}
  \/ last.kind = "response" /\ response.status \in RetriableStatuses

\* The latest attempt ended in a response outside 2xx.
LastNon2xx == last.kind = "response" /\ response.status \notin 200..299

\* The latest attempt was cut by the timer, or the transport threw an Error named
\* AbortError or TimeoutError.
LastTimedOut ==
  \/ last.kind = "abort"
  \/ /\ last.kind = "throw"
     /\ last.error.type = "Error"
     /\ last.error.name \in {"AbortError", "TimeoutError"}

\* The error code the specification assigns to the latest attempt's failure.
CodeOfLast ==
  IF LastTimedOut THEN "E_UPSTREAM_TIMEOUT"
  ELSE IF last.kind = "throw" THEN "E_UPSTREAM_NETWORK"
  ELSE "E_UPSTREAM_BAD_RESPONSE"

\* C1: a client configured with retries = R makes at most R + 1 transport calls
\* per request(); a call whose last attempt (hence every attempt) ended in a
\* retriable failure made exactly R + 1 calls and raised the classified error of
\* that last attempt.
C1_AtMostRetriesPlusOneAttempts ==
  /\ ntransport <= cfg.retries + 1
  /\ (pc = "done" /\ LastFailedRetriably) =>
       /\ ntransport = cfg.retries + 1
       /\ outcome.state = "raised"
       /\ outcome.error.code = CodeOfLast
       /\ LastNon2xx => outcome.error.details.status = response.status

\* retries = 2: three attempts, all failed retriably, then the error is raised.
C1_Witness ==
  /\ cfg.retries = 2
  /\ pc = "done"
  /\ LastFailedRetriably
  /\ ntransport = 3
  /\ outcome.state = "raised"

\* C2: a failed attempt is followed by another attempt only if attempts remain and
\* the failure is retriable; a response with any other non-2xx status makes
\* request() raise at once, without a further transport call or sleep, even when
\* attempts remain; a 2xx response is returned at once.
C2_RetryOnlyRetriable ==
  [][ /\ (ntransport' = ntransport + 1 /\ ntransport >= 1) =>
           (LastFailedRetriably /\ ntransport < cfg.retries + 1)
      /\ (pc = "snippet" /\ response.status \notin RetriableStatuses) =>
           /\ pc' = "done"
           /\ outcome'.state = "raised"
           /\ outcome'.error.code = "E_UPSTREAM_BAD_RESPONSE"
           /\ sleeps' = sleeps
           /\ ntransport' = ntransport
      /\ (pc = "inflight" /\ last'.kind = "response" /\ response'.status \in 200..299) =>
           /\ pc' \in {"done", "body"}
           /\ sleeps' = sleeps
           /\ ntransport' = ntransport
           /\ cur.method = "request" =>
                (outcome'.state = "returned" /\ outcome'.value.status = response'.status)
    ]_vars

\* HTTP 404 on the first attempt of a client with retries left: raised at once.
C2_Witness ==
  /\ pc = "done"
  /\ LastNon2xx
  /\ response.status = 404
  /\ ntransport = 1
  /\ cfg.retries = 2
  /\ sleeps = <<>>
  /\ outcome.state = "raised"

SpecifiedBackoff(k) ==
  IF cfg.backoffMs * 2^(k - 1) < cfg.maxBackoffMs
  THEN cfg.backoffMs * 2^(k - 1)
  ELSE cfg.maxBackoffMs

\* C3: a request() that makes n attempts sleeps exactly n - 1 times, never after
\* the last attempt; the sleep after failed attempt k lasts
\* min(maxBackoffMs, backoffMs * 2^(k-1)) ms, so the sleeps never decrease and
\* never exceed maxBackoffMs.
C3_BackoffSchedule ==
  /\ \A k \in 1..Len(sleeps) :
       /\ sleeps[k] = SpecifiedBackoff(k)
       /\ sleeps[k] <= cfg.maxBackoffMs
       /\ k > 1 => sleeps[k - 1] <= sleeps[k]
  /\ pc \in {"inflight", "snippet", "body", "done"} => Len(sleeps) = ntransport - 1
  /\ pc = "sleeping" => (Len(sleeps) = ntransport /\ ntransport < cfg.retries + 1)

\* Three attempts, two sleeps, the second one capped at maxBackoffMs.
C3_Witness ==
  /\ pc = "done"
  /\ ntransport = 3
  /\ Len(sleeps) = 2
  /\ sleeps[1] = cfg.backoffMs
  /\ sleeps[1] < sleeps[2]
  /\ sleeps[2] = cfg.maxBackoffMs
  /\ sleeps[2] < 2 * cfg.backoffMs

\* C4: the error request() raises is determined by its last attempt: a timer abort
\* or an Error named AbortError / TimeoutError gives E_UPSTREAM_TIMEOUT, any other
\* thrown value E_UPSTREAM_NETWORK, a non-2xx response E_UPSTREAM_BAD_RESPONSE
\* carrying details.status = response.status and a classification among
\* rate-limit, anti-bot, bad-response (429 gives rate-limit).
C4_ErrorOfLastAttempt ==
  (pc = "done" /\ (last.kind \in {"throw", "abort"} \/ LastNon2xx)) =>
    /\ outcome.state = "raised"
    /\ outcome.error.type = "CliAppError"
    /\ LastTimedOut => outcome.error.code = "E_UPSTREAM_TIMEOUT"
    /\ (last.kind = "throw" /\ ~LastTimedOut) => outcome.error.code = "E_UPSTREAM_NETWORK"
    /\ LastNon2xx =>
         /\ outcome.error.code = "E_UPSTREAM_BAD_RESPONSE"
         /\ outcome.error.details.status = response.status
         /\ outcome.error.details.classification \in
              {"rate-limit", "anti-bot", "bad-response"}
         /\ response.status = 429 => outcome.error.details.classification = "rate-limit"

\* HTTP 429 with retries = 0: one attempt, rate-limit, status 429.
C4_Witness ==
  /\ cfg.retries = 0
  /\ pc = "done"
  /\ LastNon2xx
  /\ ntransport = 1
  /\ outcome.state = "raised"
  /\ outcome.error.details.status = 429
  /\ outcome.error.details.classification = "rate-limit"


\* C5: classifyResponse applies its rules in order and the first match wins:
\* rate-limit for status 429 or a snippet matching the rate pattern; otherwise
\* anti-bot for status 401 or 403 or a snippet with an anti-bot signature;
\* otherwise bad-response; the result is always one of the three.
C5_ClassifyFirstMatchWins ==
  (fin.fn = "classifyResponse" /\ fout # "pending") =>
    /\ fout \in {"rate-limit", "anti-bot", "bad-response"}
    /\ fout = "rate-limit" <=> (fin.status = 429 \/ fin.rate)
    /\ fout = "anti-bot" <=>
         (~(fin.status = 429 \/ fin.rate) /\ (fin.status \in {401, 403} \/ fin.bot))

\* Status 403 with a snippet that matches the rate pattern and holds an anti-bot
\* signature: the earlier rule wins.
C5_Witness ==
  /\ fin.fn = "classifyResponse"
  /\ fin.status = 403
  /\ fin.rate
  /\ fin.bot
  /\ fout = "rate-limit"

(***************************************************************************)
(* Properties of the cookie jar.                                           *)
(***************************************************************************)

\* C6: the cookie header built from the jar is attached to a transport call only
\* if the origin of the target URL equals the client's base origin: no request
\* sent to another origin carries a cookie header.
C6_NoCrossOriginCookie ==
  \A i \in 1..Len(sent) :
    sent[i].url.origin # cfg.baseOrigin => "cookie" \notin DOMAIN sent[i].headers

\* A call to another origin is in flight while the jar holds a cookie.
C6_Witness ==
  /\ pc = "inflight"
  /\ cookieJar # <<>>
  /\ Len(sent) = 1
  /\ sent[1].url.origin # cfg.baseOrigin

\* The cookie header carries the pair name=value as one of its "; "-separated
\* entries.
HeaderCarries(headers, name, value) ==
  /\ "cookie" \in DOMAIN headers
  /\ LET h == headers["cookie"]
         entry == name \o <<"=">> \o value
     IN \E k \in 1..Len(h) :
          /\ k + Len(entry) - 1 <= Len(h)
          /\ SubSeq(h, k, k + Len(entry) - 1) = entry
          /\ k = 1 \/ (k > 2 /\ SubSeq(h, k - 2, k - 1) = <<";", " ">>)
          /\ \/ k + Len(entry) - 1 = Len(h)
             \/ h[k + Len(entry)] = ";"

\* C7: in getDownloadPlan a cookie set by the response to GET /down/{id} is in the
\* cookie header of the POST /api/sub/down that follows it, and of every later
\* same-origin request of the client until it is deleted or overwritten.
C7_GateCookieReachesPost ==
  (/\ pop.stage \in {"api", "bytes"}
   /\ pc = "inflight"
   /\ Len(sent) = 1
   /\ sent[1].url.origin = cfg.baseOrigin) =>
    \A nv \in ghostJar : HeaderCarries(sent[1].headers, nv[1], nv[2])

\* The jar as a set of <<name, value>> pairs.
JarPairs == {<<cookieJar[i][1], cookieJar[i][2]>> : i \in 1..Len(cookieJar)}

\* C8: after any sequence of responses the jar maps each cookie name to the value
\* of the most recent same-origin Set-Cookie for that name; an empty value or
\* "deleted" removes the name; a response from another origin changes nothing;
\* cookies are merged from every same-origin response, 2xx or not; the jar never
\* holds an empty name, an empty value or the value "deleted".
C8_JarHoldsLatestSetCookie ==
  /\ JarPairs = ghostJar
  /\ \A i \in 1..Len(cookieJar) :
       /\ cookieJar[i][1] # <<>>
       /\ cookieJar[i][2] # <<>>
       /\ cookieJar[i][2] # <<"d", "e", "l", "e", "t", "e", "d">>
  /\ \A i, j \in 1..Len(cookieJar) : cookieJar[i][1] = cookieJar[j][1] => i = j

(***************************************************************************)
(* Termination.                                                            *)
(***************************************************************************)

\* A call of request / requestText / requestJson / requestBinary is in progress.
CallInProgress == pc \in {"loop", "inflight", "snippet", "sleeping", "body"}

\* C9: every request(), requestText(), requestJson() and requestBinary() call
\* eventually returns or raises a classified error, whatever the transport does,
\* a transport call that never settles and a response body that never finishes
\* arriving included.
C9_EveryCallEnds ==
  CallInProgress ~>
    (/\ pc = "done"
     /\ outcome.state \in {"returned", "raised"}
     /\ outcome.state = "raised" => outcome.error.type = "CliAppError")

(***************************************************************************)
(* Properties of the provider's download flow.                             *)
(***************************************************************************)

\* The three upstream calls of a download, for this id and resolved URL.
DownloadCalls(sid, resolved) ==
  << [method |-> "GET", attempt |-> 1,
      url |-> [origin |-> BaseOrigin, path |-> <<<<"d", "o", "w", "n">>, sid>>, search |-> <<>>]],
     [method |-> "POST", attempt |-> 1,
      url |-> [origin |-> BaseOrigin, path |-> <<<<"a", "p", "i">>, <<"s", "u", "b">>, <<"d", "o", "w", "n">>>>, search |-> <<>>]],
     [method |-> "GET", attempt |-> 1, url |-> resolved] >>

\* The URLs the url members of the payload fixtures resolve to, read off by hand.
ResolvedUrls ==
  { [origin |-> OtherOrigin, path |-> <<<<"f", "i", "l", "e", "s">>, <<"x", ".", "a", "s", "s">>>>, search |-> <<>>],
    [origin |-> BaseOrigin, path |-> <<<<"d", "l">>, <<"x", ".", "s", "r", "t">>>>, search |-> <<>>] }

FirstAttempts == SelectSeq(calls, LAMBDA c : c.attempt = 1)

IsPrefix(s, t) == Len(s) <= Len(t) /\ SubSeq(t, 1, Len(s)) = s

\* C10: a downloadSubtitle call in which no attempt fails issues exactly three
\* upstream calls in order: GET /down/{id}, POST /api/sub/down, GET of the
\* resolved url.  In every run the POST is issued only after the gate page was
\* fetched with a 2xx response that is not an anti-bot page, and the final GET
\* only after the POST returned a payload with success = true, pass = true and
\* a url.
C10_DownloadCallSequence ==
  /\ [](pop.name = "downloadSubtitle" =>
          /\ \E resolved \in ResolvedUrls :
               IsPrefix(FirstAttempts, DownloadCalls(pop.sid, resolved))
          /\ pop.stage = "returned" =>
               /\ pop.plan.sourceUrl \in ResolvedUrls
               /\ FirstAttempts = DownloadCalls(pop.sid, pop.plan.sourceUrl)
               /\ (\A k \in 1..Len(calls) : calls[k].attempt = 1) =>
                    calls = DownloadCalls(pop.sid, pop.plan.sourceUrl))
  /\ [][ /\ (ntransport' = ntransport + 1 /\ sent'[1].method = "POST") =>
              (pop.stage = "api" /\ pop'.stage = "api")
         /\ (pop'.stage = "api" /\ pop.stage # "api") =>
              /\ pop.stage = "gate"
              /\ last.kind = "response"
              /\ response.status \in 200..299
              /\ outcome.state = "returned"
              /\ outcome.value = PageHtml
         /\ (ntransport' = ntransport + 1 /\ sent'[1].url \in ResolvedUrls) =>
              (pop.stage = "bytes" /\ pop'.stage = "bytes")
         /\ (pop'.stage = "bytes" /\ pop.stage # "bytes") =>
              /\ pop.stage = "api"
              /\ last.kind = "response"
              /\ response.status \in 200..299
              /\ outcome.state = "returned"
              /\ outcome.value.kind = "object"
              /\ outcome.value.success = {TRUE}
              /\ outcome.value.pass = {TRUE}
              /\ outcome.value.url # {}
       ]_vars

\* A download that returned after exactly three calls, the last to another origin.
C10_Witness ==
  /\ pop.name = "downloadSubtitle"
  /\ pop.stage = "returned"
  /\ Len(calls) = 3
  /\ calls[3].url.origin = OtherOrigin
  /\ calls[2].method = "POST"

\* What the message of a payload fixture says, read off the fixture by hand.
MessageClassOf(payload) ==
  IF payload.msg = {MsgVerify} THEN "anti-bot"
  ELSE IF payload.msg = {MsgRate} THEN "rate-limit"
  ELSE "bad-response"

\* The payload is a JSON object and not a success: success or pass is not
\* true, or there is no usable url.
PayloadNonSuccess(payload) ==
  /\ payload.kind = "object"
  /\ \/ payload.success # {TRUE}
     \/ payload.pass # {TRUE}
     \/ payload.url = {}
     \/ \E u \in payload.url : u.kind \in {"blank", "invalid"}

\* C11: when POST /api/sub/down returns a non-success payload, getDownloadPlan
\* returns no plan and raises E_UPSTREAM_BAD_RESPONSE classified from the message:
\* verification phrases give anti-bot, otherwise frequency phrases give
\* rate-limit, anything else bad-response with the raw payload in the detail.
C11_NonSuccessPayloadClassified ==
  [][ (/\ pop.stage = "api"
       /\ pc = "done"
       /\ outcome.state = "returned"
       /\ PayloadNonSuccess(outcome.value)) =>
        /\ pop'.stage = "raised"
        /\ pop'.error.type = "CliAppError"
        /\ pop'.error.code = "E_UPSTREAM_BAD_RESPONSE"
        /\ pop'.error.details.classification = MessageClassOf(outcome.value)
        /\ MessageClassOf(outcome.value) = "bad-response" =>
             pop'.error.details.payload = outcome.value
    ]_vars

\* The ids of ProviderIds that, trimmed and without the prefix "subhd:", are
\* empty or hold a character outside [A-Za-z0-9]: "subhd:", "x/y" and "  ".
InvalidProviderIds ==
  { <<"s", "u", "b", "h", "d", ":">>, <<"x", "/", "y">>, <<" ", " ">> }

\* C12: getDownloadPlan and downloadSubtitle, given an id that after trimming and
\* stripping "subhd:" is empty or not alphanumeric, raise E_NOT_FOUND_RESOURCE
\* and make no upstream call.
C12_InvalidIdNotFoundNoCall ==
  (pop.stage # "idle" /\ pop.id \in InvalidProviderIds) =>
    /\ pop.stage = "raised"
    /\ pop.error.type = "CliAppError"
    /\ pop.error.code = "E_NOT_FOUND_RESOURCE"
    /\ calls = <<>>

\* downloadSubtitle("x/y") as the second call of a client has been rejected.
C12_Witness ==
  /\ pop.stage = "raised"
  /\ pop.name = "downloadSubtitle"
  /\ pop.id = <<"x", "/", "y">>
  /\ ncalls = 2
  /\ calls = <<>>

\* The fixture documents that hold an anti-bot signature, labelled by hand:
\* a captcha title, a Cloudflare interstitial, a challenge script.
ChallengeDocuments ==
  {SearchPageChallenge, LandingChallenge, GatePageChallenge, ChallengeHtml}

\* C13: when the search page or the gate page arrives with a 2xx status and
\* holds an anti-bot signature, the operation raises E_UPSTREAM_BAD_RESPONSE with
\* classification anti-bot: search returns no candidate although the page has
\* parsable cards, and getDownloadPlan extracts nothing and issues no POST.
C13_ChallengeBeforeParsing ==
  [][(/\ pop.stage \in {"search", "gate"}
      /\ pc = "done"
      /\ outcome.state = "returned"
      /\ outcome.value \in ChallengeDocuments) =>
       /\ pop'.stage = "raised"
       /\ pop'.error.type = "CliAppError"
       /\ pop'.error.code = "E_UPSTREAM_BAD_RESPONSE"
       /\ pop'.error.details.classification = "anti-bot"
       /\ pc' = "done"
       /\ \A k \in 1..Len(calls') : calls'[k].method = "GET"]_vars

\* search was rejected on a challenge page that also holds a result card.
C13_Witness ==
  /\ pop.name = "search"
  /\ pop.stage = "raised"
  /\ calls # <<>>
  /\ outcome.state = "returned"
  /\ outcome.value = SearchPageChallenge
  /\ Len(parseSubhdSearchItems(SearchPageChallenge)) > 0
  /\ pop.error.details.classification = "anti-bot"

\* C14: search on a request whose token set is empty returns the empty list
\* and makes no upstream call, on the real catalog and on the mock catalog.
C14_EmptyTokensShortCircuit ==
  (pop.stage # "idle" /\ pop.name \in {"search", "mockSearch"}
     /\ pop.request.queryTokens = <<>>) =>
    /\ pop.stage = "returned"
    /\ pop.results = <<>>
    /\ calls = <<>>
    /\ pc \in {"idle", "done"}

\* search of the real catalog returned for the query "!?", which has no token.
C14_Witness ==
  /\ pop.stage = "returned"
  /\ pop.name = "search"
  /\ pop.request.query = <<"!", "?">>
  /\ pop.request.queryTokens = <<>>
  /\ pop.results = <<>>
  /\ calls = <<>>

\* The texts a title must hold for a request of the catalog scenario, written
\* by hand: the year 1999, season 1 as "s01", episode 2 as "e02".
RequiredTexts(request) ==
  (IF request.year = {1999} THEN {<<"1", "9", "9", "9">>} ELSE {})
  \cup (IF request.season = {1} THEN {<<"s", "0", "1">>} ELSE {})
  \cup (IF request.episode = {2} THEN {<<"e", "0", "2">>} ELSE {})

\* The parsed records of a document that a request keeps, in parsed order.
KeptRecords(html, request) ==
  SelectSeq(parseSubhdSearchItems(html),
            LAMBDA item : \A text \in RequiredTexts(request) :
                            includes(toLowerCase(item.title), text))

\* The results are the records, one for one: catalog "subhd", id "subhd:"
\* before the parsed identifier, and the parsed fields.
ResultsAre(results, records) ==
  /\ Len(results) = Len(records)
  /\ \A i \in 1..Len(results) :
       /\ results[i].providerId = "subhd"
       /\ results[i].id = <<"s", "u", "b", "h", "d", ":">> \o records[i].sid
       /\ results[i].title = records[i].title
       /\ results[i].language = records[i].language
       /\ results[i].format = records[i].format
       /\ results[i].downloads = records[i].downloads

\* C15: a search of the real catalog that returns after fetching the search
\* page returns exactly the parsed records whose lower-cased title holds the
\* year, the season as sNN and the episode as eNN where the request sets them,
\* in parsed order, each with catalog "subhd" and id "subhd:" before its
\* parsed identifier.
C15_SearchFiltersAndMaps ==
  (pop.stage = "returned" /\ pop.name = "search" /\ calls # <<>>) =>
    /\ outcome.state = "returned"
    /\ ResultsAre(pop.results, KeptRecords(outcome.value, pop.request))

\* The request "Show" season 1 episode 2 kept the second of the two parsed
\* records of the page.
C15_Witness ==
  /\ pop.stage = "returned"
  /\ pop.name = "search"
  /\ pop.request.season = {1}
  /\ pop.request.episode = {2}
  /\ outcome.state = "returned"
  /\ outcome.value = SearchPageCards
  /\ Len(parseSubhdSearchItems(SearchPageCards)) = 2
  /\ Len(pop.results) = 1
  /\ pop.results[1].id = <<"s", "u", "b", "h", "d", ":", "M", "W", "F">>

\* What a reader takes from the resolved URLs of the catalog scenario: the
\* decoded last path segment, if there is one, and the subtitle format that
\* its extension names, if it names one.
UrlBaseName(sourceUrl) ==
  IF sourceUrl.path = <<>> THEN {}
  ELSE IF sourceUrl.path[Len(sourceUrl.path)] = <<"x", ".", "a", "s", "s">>
  THEN {<<"x", ".", "a", "s", "s">>}
  ELSE IF sourceUrl.path[Len(sourceUrl.path)] = <<"T", "h", "e", "%", "2", "0", "M", "a", "t", "r", "i", "x", ".", "s", "r", "t">>
  THEN {<<"T", "h", "e", " ", "M", "a", "t", "r", "i", "x", ".", "s", "r", "t">>}
  ELSE {<<"p", "a", "c", "k", ".", "z", "i", "p">>}

UrlFormat(sourceUrl) ==
  IF sourceUrl.path = <<>> THEN {}
  ELSE IF sourceUrl.path[Len(sourceUrl.path)] = <<"x", ".", "a", "s", "s">> THEN {"ass"}
  ELSE IF sourceUrl.path[Len(sourceUrl.path)] = <<"T", "h", "e", "%", "2", "0", "M", "a", "t", "r", "i", "x", ".", "s", "r", "t">>
  THEN {"srt"}
  ELSE {}

\* What a reader takes from the gate pages, told apart by their title: the
\* title as a file stem (unsafe characters removed, whitespace collapsed), which
\* for the page without a title is "subhd-" and the identifier, and the format
\* that the version cell names, if there is one.
GateStem(title, sid) ==
  IF title = <<"T", "h", "e", ":", " ", "M", "a", "t", "r", "i", "x", " ", "&", " ", "1", "9", "9", "9">>
  THEN <<"T", "h", "e", " ", "M", "a", "t", "r", "i", "x", " ", "&", " ", "1", "9", "9", "9">>
  ELSE <<"s", "u", "b", "h", "d", "-">> \o sid

GateFormat(title) ==
  IF title = <<"T", "h", "e", ":", " ", "M", "a", "t", "r", "i", "x", " ", "&", " ", "1", "9", "9", "9">>
  THEN {"ass"}
  ELSE {}

FormatAsText(format) ==
  CASE format = "ass" -> <<"a", "s", "s">>
    [] format = "srt" -> <<"s", "r", "t">>
    [] format = "vtt" -> <<"v", "t", "t">>

\* The plan has the file name and the format of the claim, given the title of
\* the gate page and the resolved URL.
PlanAsClaimed(plan, title, sid) ==
  /\ plan.format =
       (IF UrlFormat(plan.sourceUrl) # {} THEN CHOOSE f \in UrlFormat(plan.sourceUrl) : TRUE
        ELSE IF GateFormat(title) # {} THEN CHOOSE f \in GateFormat(title) : TRUE
        ELSE "srt")
  /\ plan.fileName =
       (IF UrlBaseName(plan.sourceUrl) # {}
        THEN CHOOSE n \in UrlBaseName(plan.sourceUrl) : TRUE
        ELSE GateStem(title, sid) \o <<".">> \o FormatAsText(plan.format))

\* C16: the plan that getDownloadPlan builds has as file name the decoded last
\* non-empty path segment of the resolved URL, or without one the sanitized
\* title stem of the gate page, "." and the format; its format is the one of
\* the URL's extension, else the format hint of the gate page, else "srt".
C16_PlanFileNameAndFormat ==
  [][(pop.stage = "api" /\ pop'.stage \in {"returned", "bytes"}) =>
       PlanAsClaimed(pop'.plan, pop.page.title, pop.sid)]_vars

\* A plan for a URL without a path segment, named after the gate page.
C16_Witness ==
  /\ pop.stage = "returned"
  /\ pop.name = "getDownloadPlan"
  /\ pop.plan.sourceUrl.path = <<>>
  /\ pop.plan.format = "ass"
  /\ pop.plan.fileName = <<"T", "h", "e", " ", "M", "a", "t", "r", "i", "x", " ", "&", " ", "1", "9", "9", "9", ".", "a", "s", "s">>

----------------------------------------------------------------------------
(* C17.  The codes of the taxonomy (core/errors.ts, CLI_ERROR_CODES) and    *)
(* the classifications an E_UPSTREAM_BAD_RESPONSE error may carry.          *)
ErrorTaxonomy ==
  {"E_ARG_INVALID", "E_ARG_MISSING", "E_ARG_CONFLICT", "E_ARG_UNSUPPORTED",
   "E_AUTH_REQUIRED", "E_AUTH_INVALID", "E_NOT_FOUND_RESOURCE",
   "E_UPSTREAM_NETWORK", "E_UPSTREAM_TIMEOUT", "E_UPSTREAM_BAD_RESPONSE", "E_UNKNOWN"}

UpstreamCodes == {"E_UPSTREAM_NETWORK", "E_UPSTREAM_TIMEOUT", "E_UPSTREAM_BAD_RESPONSE"}

Classifications == {"rate-limit", "anti-bot", "bad-response"}

IsClassifiedError(error) ==
  /\ error.type = "CliAppError"
  /\ error.code \in ErrorTaxonomy
  /\ "provider" \in DOMAIN error.details
  /\ error.details.provider = "subhd"
  /\ error.code \in UpstreamCodes => "url" \in DOMAIN error.details
  /\ error.code = "E_UPSTREAM_BAD_RESPONSE" =>
       /\ "classification" \in DOMAIN error.details
       /\ error.details.classification \in Classifications

RaisedByCatalog ==
  /\ pop.stage = "raised"
  /\ pop.name \in {"search", "getDownloadPlan", "downloadSubtitle"}

\* C17: every error raised by search, getDownloadPlan or downloadSubtitle of
\* the real catalog is a classified error of the taxonomy whose details hold
\* the catalog id, the URL for the three upstream codes and a classification
\* for E_UPSTREAM_BAD_RESPONSE; and a failure of the upstream client is raised
\* on as it is.
C17_EveryErrorClassified ==
  RaisedByCatalog =>
    /\ IsClassifiedError(pop.error)
    /\ (calls # <<>> /\ outcome.state = "raised") => pop.error = outcome.error

----------------------------------------------------------------------------
\* C18: doctor of the real catalog never raises.  A landing page that holds an
\* anti-bot signature gives a report with ok = false and classification
\* anti-bot, any other landing page a report with ok = true, and a failure of
\* the fetch a report with ok = false that carries the error's code and details
\* (E_UNKNOWN and the error's name for an error that has no code).
C18_DoctorNeverRaises ==
  pop.name = "doctor" =>
    /\ pop.stage # "raised"
    /\ pop.stage = "returned" =>
         /\ pop.report.details.provider = "subhd"
         /\ (outcome.state = "returned" /\ outcome.value \in ChallengeDocuments) =>
              /\ pop.report.ok = FALSE
              /\ pop.report.details.classification = "anti-bot"
         /\ (outcome.state = "returned" /\ outcome.value \notin ChallengeDocuments) =>
              /\ pop.report.ok = TRUE
              /\ "classification" \notin DOMAIN pop.report.details
         /\ (outcome.state = "raised" /\ outcome.error.type = "CliAppError") =>
              /\ pop.report.ok = FALSE
              /\ pop.report.details.code = outcome.error.code
              /\ pop.report.details.details = outcome.error.details
         /\ (outcome.state = "raised" /\ outcome.error.type # "CliAppError") =>
              /\ pop.report.ok = FALSE
              /\ pop.report.details.code = "E_UNKNOWN"
              /\ pop.report.details.details.name = {outcome.error.name}

\* doctor has reported a gated landing page.
C18_Witness ==
  /\ pop.name = "doctor"
  /\ pop.stage = "returned"
  /\ outcome.state = "returned"
  /\ outcome.value = LandingChallenge
  /\ pop.report.ok = FALSE

\* doctor has reported a timeout of the landing-page fetch.
C18_FailureReported ==
  /\ pop.name = "doctor"
  /\ pop.stage = "returned"
  /\ outcome.state = "raised"
  /\ pop.report.details.code = "E_UPSTREAM_TIMEOUT"

----------------------------------------------------------------------------
idsOf(ranked) == [i \in 1..Len(ranked) |-> ranked[i].id]

scoresOf(ranked) == [i \in 1..Len(ranked) |-> ranked[i].score]

\* C19: the ranking of a candidate list and the ranking of any permutation of
\* it, under the same request and limit, list the same ids in the same order
\* with the same scores.
C19_RankIgnoresInputOrder ==
  (fin.fn = "rank" /\ Len(fout) = 2) =>
    /\ idsOf(fout[1]) = idsOf(fout[2])
    /\ scoresOf(fout[1]) = scoresOf(fout[2])

\* Both rankings are made, of the four candidates that differ in their id only,
\* in their downloads or in their catalog, and of the reverse of that list.
C19_Witness ==
  /\ fin.fn = "rank"
  /\ Len(fout) = 2
  /\ fin.lists[1] = SubSeq(RankCandidates, 1, 4)
  /\ \A i \in 1..4 : fin.lists[2][i] = fin.lists[1][5 - i]
  /\ Len(fout[1]) = 4
  /\ fout[1][1].score = fout[1][4].score

----------------------------------------------------------------------------
\* The catalog ids and the candidate ids of RankCandidates in ascending order,
\* written by hand: a lower-case letter comes before the same letter in upper
\* case, and 'a' before 'D'.
CatalogIdsAscending == <<"assrt", "subhd">>

CandidateIdsAscending ==
  << <<"a", "s", "s", "r", "t", "-", "1", "0", "0", "1">>,
     <<"a", "s", "s", "r", "t", "-", "2", "0", "0", "1">>,
     <<"s", "u", "b", "h", "d", ":", "x", "a", "1">>,
     <<"s", "u", "b", "h", "d", ":", "x", "D", "0">>,
     <<"s", "u", "b", "h", "d", ":", "z", "9">> >>

PositionIn(list, x) == CHOOSE i \in 1..Len(list) : list[i] = x

\* first is to come before second: by the score, then the downloads, then the
\* catalog id, then the candidate id.
ComesBefore(first, second) ==
  \/ first.score > second.score
  \/ /\ first.score = second.score
     /\ \/ first.downloads > second.downloads
        \/ /\ first.downloads = second.downloads
           /\ \/ PositionIn(CatalogIdsAscending, first.providerId)
                   < PositionIn(CatalogIdsAscending, second.providerId)
              \/ /\ first.providerId = second.providerId
                 /\ PositionIn(CandidateIdsAscending, first.id)
                      < PositionIn(CandidateIdsAscending, second.id)

\* C20: in every list that rank returns, each record comes before the next one
\* by the score descending, then the downloads descending, then the catalog id
\* ascending, then the candidate id ascending.
C20_RankOrder ==
  fin.fn = "rank" =>
    \A k \in 1..Len(fout) :
      \A i \in 1..(Len(fout[k]) - 1) : ComesBefore(fout[k][i], fout[k][i + 1])

\* A returned list of four records with one score, in which the downloads
\* decide the first pair, the catalog id the second and the candidate id the
\* third; it was given in another order.
C20_Witness ==
  /\ fin.fn = "rank"
  /\ Len(fout) = 2
  /\ Len(fout[2]) = 4
  /\ fout[2][1].score = fout[2][4].score
  /\ fout[2][1].downloads > fout[2][2].downloads
  /\ fout[2][2].downloads = fout[2][3].downloads
  /\ fout[2][2].providerId = "assrt"
  /\ fout[2][3].providerId = "subhd"
  /\ fout[2][3].downloads = fout[2][4].downloads
  /\ fout[2][4].providerId = "subhd"
  /\ fout[2][3].id # fout[2][4].id
  /\ idsOf(fin.lists[2]) # idsOf(fout[2])

----------------------------------------------------------------------------
\* The record is the candidate with its own fields, and a score, reasons and a
\* rank besides.
IsCandidateRanked(record, candidate) ==
  /\ DOMAIN record = DOMAIN candidate \cup {"score", "reasons", "rank"}
  /\ \A field \in DOMAIN candidate : record[field] = candidate[field]

\* C21: for a limit >= 0, rank returns min(limit, number of candidates)
\* records; the record at position i has rank i and is one input candidate with
\* its fields unchanged plus score, reasons and rank; and every candidate left
\* out comes after every record returned.
C21_RankLimitAndRanks ==
  (fin.fn = "rank" /\ fin.limit # {}) =>
    \A k \in 1..Len(fout) :
      /\ \A n \in fin.limit :
           Len(fout[k]) = (IF n <= Len(fin.lists[k]) THEN n ELSE Len(fin.lists[k]))
      /\ \A i \in 1..Len(fout[k]) :
           /\ fout[k][i].rank = i
           /\ \E j \in 1..Len(fin.lists[k]) : IsCandidateRanked(fout[k][i], fin.lists[k][j])
      /\ \A j \in 1..Len(fin.lists[k]) :
           (\A i \in 1..Len(fout[k]) : fout[k][i].id # fin.lists[k][j].id) =>
             \A i \in 1..Len(fout[k]) :
               ComesBefore(fout[k][i], scoreSubtitleCandidate(fin.request, fin.lists[k][j]))

\* Two of four candidates are returned, and a candidate that was given first
\* is left out.
C21_Witness ==
  /\ fin.fn = "rank"
  /\ fin.limit = {2}
  /\ Len(fout) = 2
  /\ Len(fin.lists[2]) = 4
  /\ Len(fout[2]) = 2
  /\ \A i \in 1..2 : fout[2][i].id # fin.lists[2][1].id

----------------------------------------------------------------------------
\* The language codes of the candidates as the preference lists spell them,
\* written by hand.
LanguageAsText(language) ==
  CASE language = "en" -> <<"e", "n">>
    [] language = "zh-cn" -> <<"z", "h", "-", "c", "n">>
    [] language = "zh-tw" -> <<"z", "h", "-", "t", "w">>

\* The language contribution the specification gives, in whole points.
ClaimedLanguagePoints(preferences, language) ==
  IF preferences = <<>> THEN 0
  ELSE IF preferences[1] = LanguageAsText(language) THEN 30
  ELSE IF \E i \in 2..Len(preferences) : preferences[i] = LanguageAsText(language) THEN 20
  ELSE -10

WithoutPreferences(request) == [request EXCEPT !.languagePreferences = <<>>]

SameLanguageSet(first, second) ==
  /\ {first.languagePreferences[i] : i \in 1..Len(first.languagePreferences)}
       = {second.languagePreferences[i] : i \in 1..Len(second.languagePreferences)}
  /\ first.normalizedQuery = second.normalizedQuery
  /\ first.year = second.year
  /\ first.season = second.season
  /\ first.episode = second.episode

\* C22: the score of a ranked candidate exceeds its score under the same
\* request without language preferences by 30 when its language is the first
\* preference, by 20 when it is another preference, by -10 when there are
\* preferences and none is its language, and by 0 when there are none; and two
\* requests that differ in the order of their languages only have one
\* fingerprint.
C22_LanguageContribution ==
  fin.fn = "rank" =>
    /\ \A k \in 1..Len(fout) : \A i \in 1..Len(fout[k]) :
         \E j \in 1..Len(fin.lists[k]) :
           /\ fin.lists[k][j].id = fout[k][i].id
           /\ fout[k][i].score
                = scoreSubtitleCandidate(WithoutPreferences(fin.request), fin.lists[k][j]).score
                  + 1000000 * ClaimedLanguagePoints(fin.request.languagePreferences,
                                                    fout[k][i].language)
    /\ \A other \in RankRequests :
         SameLanguageSet(fin.request, other) => other.fingerprint = fin.request.fingerprint

\* A candidate in Chinese is ranked under the request that prefers English
\* first, and the request of the same fingerprint that prefers Chinese first
\* gives it another score.
C22_Witness ==
  /\ fin.fn = "rank"
  /\ Len(fout) = 2
  /\ Len(fout[2]) > 0
  /\ fout[2][1].language = "zh-cn"
  /\ fin.request.languagePreferences = << <<"e", "n">>, <<"z", "h", "-", "c", "n">> >>
  /\ \E other \in RankRequests :
       /\ other.languagePreferences # fin.request.languagePreferences
       /\ other.fingerprint = fin.request.fingerprint
       /\ \E j \in 1..Len(fin.lists[2]) :
            /\ fin.lists[2][j].id = fout[2][1].id
            /\ scoreSubtitleCandidate(other, fin.lists[2][j]).score = fout[2][1].score + 10000000

----------------------------------------------------------------------------
\* The two inputs are the same request to a reader.
SameRequestAsRead ==
  /\ fin.inputs[1].text = fin.inputs[2].text
  /\ fin.inputs[1].codes = fin.inputs[2].codes
  /\ fin.inputs[1].year = fin.inputs[2].year
  /\ fin.inputs[1].season = fin.inputs[2].season
  /\ fin.inputs[1].episode = fin.inputs[2].episode

\* C23: two inputs with the same query text up to whitespace runs and letter
\* case, the same year, season and episode and the same set of languages up to
\* case, surrounding whitespace, aliases, duplicates and order are both
\* normalized, to one fingerprint.
C23_FingerprintOfEqualRequests ==
  (fin.fn = "normalize" /\ Len(fout) >= 2 /\ SameRequestAsRead) =>
    /\ fout[1].state = "returned"
    /\ fout[2].state = "returned"
    /\ fout[1].value.fingerprint = fout[2].value.fingerprint


\* C24: normalizing again the output of a normalization (its canonical or its
\* lower-cased query, its year, season and episode, its language preference
\* list) returns the same token set, language list and fingerprint.
C24_NormalizeIdempotent ==
  (fin.fn = "normalize" /\ Len(fout) > Len(fin.inputs)) =>
    /\ fout[3].state = "returned"
    /\ fout[3].value.queryTokens = fout[1].value.queryTokens
    /\ fout[3].value.languagePreferences = fout[1].value.languagePreferences
    /\ fout[3].value.fingerprint = fout[1].value.fingerprint

\* What the language list is said to hold for one input language: the value
\* trimmed, lower-cased and mapped by the alias table, an unknown code unchanged.
LanguageAsDocumented(value) ==
  IF aliasOf(toLowerCase(trim(value)), LANGUAGE_ALIAS_MAP) = {}
  THEN toLowerCase(trim(value))
  ELSE CHOOSE v \in aliasOf(toLowerCase(trim(value)), LANGUAGE_ALIAS_MAP) : TRUE

IsNonEmptyText(value) == Len(value) > 0

LanguagesAsDocumented(values) ==
  distinct(SelectSeq([i \in 1..Len(values) |-> LanguageAsDocumented(values[i])],
                     IsNonEmptyText))

LanguagesOfInput(labelled) ==
  IF labelled.languages = {} THEN <<>> ELSE CHOOSE l \in labelled.languages : TRUE

LanguageListAsDocumented(labelled, request) ==
  /\ request.languagePreferences = LanguagesAsDocumented(LanguagesOfInput(labelled))
  /\ \A i, j \in 1..Len(request.languagePreferences) :
       /\ Len(request.languagePreferences[i]) > 0
       /\ (i # j => request.languagePreferences[i] # request.languagePreferences[j])
  /\ request.fingerprint =
       join(<<request.normalizedQuery, optionalToString(labelled.year),
              optionalToString(labelled.season), optionalToString(labelled.episode),
              join(sortStrings(LanguagesAsDocumented(LanguagesOfInput(labelled))),
                   <<",">>)>>, <<"|">>)

\* C25: every normalization returns, and its language preference list is the
\* input languages trimmed, lower-cased and alias-mapped (unknown codes
\* unchanged), empty strings dropped, duplicates removed in first-seen order;
\* the fingerprint lists the same codes sorted.
C25_LanguageList ==
  fin.fn = "normalize" =>
    \A i \in 1..Len(fout) :
      i <= Len(fin.inputs) =>
        /\ fout[i].state = "returned"
        /\ LanguageListAsDocumented(fin.inputs[i], fout[i].value)


\* The cards of the document that carry an identifier, as read one by one.
RECURSIVE firstOccurrences(_, _)
firstOccurrences(list, seen) ==
  IF list = <<>> THEN <<>>
  ELSE IF ParseCards[Head(list)].sid = {} \/ ParseCards[Head(list)].sid \subseteq seen
       THEN firstOccurrences(Tail(list), seen)
       ELSE <<Head(list)>> \o firstOccurrences(Tail(list), seen \cup ParseCards[Head(list)].sid)

\* The record is the one of the card.
IsRecordOfCard(item, card) ==
  /\ {item.sid} = card.sid
  /\ item.title = card.title
  /\ item.language = card.language
  /\ item.format = card.format
  /\ item.downloads = card.downloads

\* C26: the extraction returns one record per identifier, the record of the
\* first card that carries it, at the position of that card among the first
\* occurrences; a card without an identifier gives no record.
C26_FirstOccurrenceKept ==
  (fin.fn = "parseSubhdSearchItems" /\ fout # <<>> /\ fout[1].state = "returned") =>
    /\ Len(fout[1].value) = Len(firstOccurrences(fin.cards, {}))
    /\ \A i \in 1..Len(fout[1].value) :
         IsRecordOfCard(fout[1].value[i], ParseCards[firstOccurrences(fin.cards, {})[i]])

\* C27: the file stem of the download-page extraction is never empty, has at
\* most 96 characters, none of the characters \ / : * ? " < > |, no leading
\* or trailing whitespace and no two consecutive whitespace characters.
C27_FileStemShape ==
  (fin.fn = "parseSubhdDownloadPage" /\ fout # <<>> /\ fout[1].state = "returned") =>
    /\ Len(fout[1].value.fileStem) \in 1..96
    /\ \A i \in 1..Len(fout[1].value.fileStem) :
         fout[1].value.fileStem[i] \notin {"\\", "/", ":", "*", "?", "\"", "<", ">", "|"}
    /\ fout[1].value.fileStem[1] \notin Whitespace
    /\ fout[1].value.fileStem[Len(fout[1].value.fileStem)] \notin Whitespace
    /\ \A i \in 1..(Len(fout[1].value.fileStem) - 1) :
         ~(fout[1].value.fileStem[i] \in Whitespace
           /\ fout[1].value.fileStem[i + 1] \in Whitespace)

\* C28: parseSubhdSearchItems and parseSubhdDownloadPage return for every
\* document; neither raises.
C28_ParsersNeverThrow ==
  (fin.fn \in {"parseSubhdSearchItems", "parseSubhdDownloadPage"} /\ fout # <<>>) =>
    fout[1].state = "returned"

\* The argument vector sets dry-run: the flag stands last or before another flag.
DryRunSet ==
  \E i \in 1..Len(fin.argv) :
    /\ fin.argv[i] = <<"-", "-", "d", "r", "y", "-", "r", "u", "n">>
    /\ (i = Len(fin.argv) \/ startsWith(fin.argv[i + 1], <<"-">>))

\* The number of calls of a dependency made so far.
callCount(name) == Cardinality({i \in 1..Len(fout.calls) : fout.calls[i].name = name})

\* C29: with dry-run set, the download and the fetch command never call
\* downloadSubtitle nor the file writer and call getDownloadPlan at most once;
\* a run that ends with a result has called it exactly once and reports
\* dryRun = true and 0 bytes written.
C29_DryRunOnlyPlans ==
  (fin.fn = "runCli" /\ DryRunSet /\ fout.command \in {"download", "fetch"}) =>
    /\ callCount("downloadSubtitle") = 0
    /\ callCount("writeFile") = 0
    /\ callCount("getDownloadPlan") <= 1
    /\ (fout.pc = "returned" /\ fout.error = {}) =>
         /\ callCount("getDownloadPlan") = 1
         /\ \E data \in {IF fout.json THEN fout.stdout[1].envelope.data ELSE fout.stdout[1].text} :
              data.dryRun = TRUE /\ data.bytesWritten = 0

C29_Witness ==
  /\ fin.fn = "runCli" /\ DryRunSet /\ fout.command = "fetch"
  /\ fout.pc = "returned" /\ fout.exit = {0}
  /\ callCount("search") = 1 /\ callCount("getDownloadPlan") = 1
  /\ callCount("resolveOutputPath") = 1

\* The exit code that each error code is said to give.
ExitCodeByFamily ==
  [E_ARG_INVALID |-> 2, E_ARG_MISSING |-> 2, E_ARG_CONFLICT |-> 2, E_ARG_UNSUPPORTED |-> 2,
   E_AUTH_REQUIRED |-> 3, E_AUTH_INVALID |-> 3, E_NOT_FOUND_RESOURCE |-> 4,
   E_UPSTREAM_NETWORK |-> 5, E_UPSTREAM_TIMEOUT |-> 5, E_UPSTREAM_BAD_RESPONSE |-> 5,
   E_UNKNOWN |-> 10]

\* C30: when runCli returns, it returns 0 after a success and otherwise the
\* exit code of the family of the error's code: 2 for E_ARG_*, 3 for E_AUTH_*,
\* 4 for E_NOT_FOUND_*, 5 for E_UPSTREAM_*, 10 for anything else.
C30_ExitCodeByPrefix ==
  (fin.fn = "runCli" /\ fout.pc = "returned") =>
    IF fout.error = {} THEN fout.exit = {0}
    ELSE \A error \in fout.error : fout.exit = {ExitCodeByFamily[error.code]}

C30_Witness ==
  /\ fin.fn = "runCli" /\ fout.pc = "returned"
  /\ \E error \in fout.error : error.code = "E_UPSTREAM_TIMEOUT"
  /\ fout.exit = {5}
  /\ callCount("search") = 1

\* The argument vector sets --json: the flag stands last or before another flag.
JsonSet ==
  \E i \in 1..Len(fin.argv) :
    /\ fin.argv[i] = <<"-", "-", "j", "s", "o", "n">>
    /\ (i = Len(fin.argv) \/ startsWith(fin.argv[i + 1], <<"-">>))

\* The code, the message and the details that a thrown value is classified
\* to: its own when it is a classified error, E_UNKNOWN otherwise.
ClassifiedAs(thrown) ==
  IF thrown.type = "CliAppError"
  THEN [code |-> thrown.code, message |-> thrown.message, details |-> thrown.details]
  ELSE IF thrown.type = "Error"
  THEN [code |-> "E_UNKNOWN", message |-> thrown.message, details |-> {[name |-> thrown.name]}]
  ELSE [code |-> "E_UNKNOWN", message |-> "Unknown error", details |-> {thrown}]

\* C31: a run that ends after a failure has written the classified error's
\* code, message and details once: with --json as the one envelope on stdout
\* and nothing on stderr, without --json on stderr and nothing on stdout.  A
\* run that ends after a success has written one result to stdout and nothing
\* to stderr.
C31_ErrorEmittedUnchanged ==
  (fin.fn = "runCli" /\ fout.pc = "returned") =>
    IF fout.thrown = {}
    THEN /\ Len(fout.stdout) = 1
         /\ fout.stderr = <<>>
         /\ JsonSet => fout.stdout[1].envelope.ok = TRUE
    ELSE \A thrown \in fout.thrown :
           IF JsonSet
           THEN /\ fout.stdout = <<[envelope |-> [ok |-> FALSE, error |-> ClassifiedAs(thrown)]]>>
                /\ fout.stderr = <<>>
           ELSE /\ fout.stderr = <<[text |-> ClassifiedAs(thrown)]>>
                /\ fout.stdout = <<>>

C31_Witness ==
  /\ fin.fn = "runCli" /\ fout.pc = "returned" /\ JsonSet
  /\ \E thrown \in fout.thrown : thrown.type = "CliAppError" /\ thrown.code = "E_UPSTREAM_TIMEOUT"
  /\ Len(fout.calls) > 0
  /\ Len(fout.stdout) = 1
  /\ fout.stdout[1].envelope.error.code = "E_UPSTREAM_TIMEOUT"

\* The calls of the provider and of the file writer that a transfer makes.
TransferCalls == {"getDownloadPlan", "downloadSubtitle", "resolveOutputPath", "writeFile"}

\* The candidate of rank 1 in the ranking of a list for the call's request.
rankOne(call, candidates) == rankSubtitleCandidates(requestOf(call), candidates, {})[1]

\* C32: a fetch whose search returned no candidate has ended with
\* E_NOT_FOUND_RESOURCE and exit code 4 and has called neither getDownloadPlan,
\* downloadSubtitle nor the file writer; a fetch whose search returned
\* candidates has resolved or downloaded no other id than that of the rank-1
\* candidate, and has started with it.
C32_FetchRankOneOnly ==
  (fin.fn = "runCli" /\ fout.command = "fetch") =>
    \A candidates \in fout.searched :
      IF candidates = <<>>
      THEN /\ fout.pc = "returned"
           /\ \E e \in fout.error : e.code = "E_NOT_FOUND_RESOURCE"
           /\ fout.exit = {4}
           /\ \A i \in 1..Len(fout.calls) : fout.calls[i].name \notin TransferCalls
      ELSE /\ \A i \in 1..Len(fout.calls) :
                fout.calls[i].name \in {"getDownloadPlan", "downloadSubtitle"} =>
                  fout.calls[i].argument = rankOne(fout, candidates).id
           /\ callCount("getDownloadPlan") + callCount("downloadSubtitle") = 1
           /\ fout.selected = {rankOne(fout, candidates)}

C32_Witness ==
  /\ fin.fn = "runCli" /\ fout.command = "fetch" /\ fout.pc = "returned" /\ fout.exit = {0}
  /\ \E candidates \in fout.searched :
       /\ Len(candidates) = 3
       /\ rankOne(fout, candidates).id # candidates[1].id
       /\ \E i \in 1..Len(fout.calls) :
            /\ fout.calls[i].name = "downloadSubtitle"
            /\ fout.calls[i].argument = rankOne(fout, candidates).id

\* C39: runCli never rejects, and every run that has ended has returned one
\* of the exit codes 0, 2, 3, 4, 5 and 10, having reported a failure as an
\* error envelope or an error text.
C39_RunCliAlwaysReturns ==
  fin.fn = "runCli" =>
    /\ fout.pc # "rejected"
    /\ fout.pc = "returned" =>
         /\ \E code \in {0, 2, 3, 4, 5, 10} : fout.exit = {code}
         /\ fout.exit # {0} => Len(fout.stdout) + Len(fout.stderr) = 1

\* A step that starts the second or a later attempt of a request() call.
RetryStarts == pc = "loop" /\ pc' = "inflight" /\ attempt >= 1

\* The headers of a request other than the cookie header.
withoutCookie(headers) == [n \in DOMAIN headers \ {"cookie"} |-> headers[n]]

\* C33 as stated: every retry hands the transport the request of the attempt
\* before it, and so that of the first attempt: URL, method, body and all the
\* headers, the cookie header among them.
C33_RetryResendsSameRequest ==
  [][RetryStarts => sent' = sent]_vars

\* C33, amended: every retry has the URL, the method, the body and every
\* header but the cookie header of the attempt before it; its cookie header is
\* the jar as it is when the retry starts, so it is the one of the attempt
\* before unless the failed response in between was of the base origin and had
\* Set-Cookie fields.
C33_RetryResendsSameButCookie ==
  [][RetryStarts =>
       /\ sent'[1].url = sent[1].url
       /\ sent'[1].method = sent[1].method
       /\ sent'[1].body = sent[1].body
       /\ withoutCookie(sent'[1].headers) = withoutCookie(sent[1].headers)
       /\ "cookie" \in DOMAIN sent'[1].headers
            <=> (cookieJar # <<>> /\ cur.url.origin = cfg.baseOrigin)
       /\ "cookie" \in DOMAIN sent'[1].headers
            => sent'[1].headers["cookie"] = serializeCookies(cookieJar)
       /\ (last.kind # "response" \/ last.setCookie = <<>> \/ cur.url.origin # cfg.baseOrigin)
            => sent' = sent]_vars

\* A retry is under way after a failed response that set a cookie: the
\* retry carries the cookie, a body and a header of the caller.
C33_Witness ==
  /\ pc = "inflight" /\ attempt = 2
  /\ last.kind = "response" /\ last.setCookie # <<>>
  /\ "cookie" \in DOMAIN sent[1].headers
  /\ "accept" \in DOMAIN sent[1].headers
  /\ sent[1].body # {}

\* C34: at most one timeout timer is pending at any time, and only while a
\* transport call is under way: none is pending during a backoff sleep, while
\* a body is read, or once request() has returned or raised.
C34_TimerReleased ==
  /\ timers \in {0, 1}
  /\ timers = 1 => pc = "inflight"
  /\ pc \in {"sleeping", "snippet", "body", "loop", "done", "idle"} => timers = 0

\* A backoff sleep after a timeout, and the end of a call whose last
\* transport call threw.
C34_Witness ==
  /\ timers = 0
  /\ \/ pc = "sleeping" /\ last.kind = "abort"
     \/ pc = "done" /\ last.kind = "throw" /\ outcome.state = "raised" /\ ntransport >= 2

\* The URL of the requestJson call of the retry scenario, written out.
ApiUrl == [origin |-> "https://subhd.test", path |-> <<<<"a", "p", "i">>>>, search |-> <<>>]

\* C35: when requestJson has the 2xx response and reading its body as JSON
\* fails, the call ends there, without another attempt and without a sleep,
\* raising E_UPSTREAM_BAD_RESPONSE with the classification bad-response, the
\* catalog id, the target URL and the message of the decode error.
C35_InvalidJsonRaisedAtOnce ==
  [][(pc = "body" /\ cur.method = "requestJson") =>
       /\ pc' = "done"
       /\ ntransport' = ntransport
       /\ attempt' = attempt
       /\ sleeps' = sleeps
       /\ outcome'.state \in {"returned", "raised"}
       /\ outcome'.state = "raised" =>
            /\ outcome'.error.type = "CliAppError"
            /\ outcome'.error.code = "E_UPSTREAM_BAD_RESPONSE"
            /\ DOMAIN outcome'.error.details = {"provider", "url", "classification", "reason"}
            /\ outcome'.error.details.classification = "bad-response"
            /\ outcome'.error.details.provider = "subhd"
            /\ outcome'.error.details.url = ApiUrl
            /\ outcome'.error.details.reason \in {"Unexpected token", "terminated"}]_vars

\* requestJson has raised the decode error of the second response although
\* another attempt was left.
C35_Witness ==
  /\ pc = "done" /\ cur.method = "requestJson"
  /\ outcome.state = "raised"
  /\ outcome.error.code = "E_UPSTREAM_BAD_RESPONSE"
  /\ "reason" \in DOMAIN outcome.error.details
  /\ outcome.error.details.reason = "Unexpected token"
  /\ ntransport = 2 /\ cur.maxAttempts = 3

\* C36: the Set-Cookie entries read from a response are the entries the
\* response carried, in order, also when they arrived as one comma-joined
\* header value that the splitter had to take apart; and each of them that
\* names a cookie is in the jar once a same-origin response has been taken in.
C36_SplitterReturnsEntries ==
  last.kind = "response" =>
    /\ [i \in 1..Len(last.read) |-> trim(last.read[i])]
         = [i \in 1..Len(last.setCookie) |-> trim(last.setCookie[i])]
    /\ (pc \in {"snippet", "body", "done"} /\ cur.url.origin = cfg.baseOrigin
         /\ \E i \in 1..Len(last.setCookie) : last.setCookie[i] = CookieTk)
         => \E j \in 1..Len(cookieJar) : cookieJar[j] = <<<<"t", "k">>, <<"a", "b", "c">>>>

\* The file name of each record of the mock catalog, read off its title and
\* its format by hand.
MockFileNames ==
  << <<<<"a", "s", "s", "r", "t", "-", "1", "0", "0", "1">>, <<"T", "h", "e", " ", "M", "a", "t", "r", "i", "x", " ", "(", "1", "9", "9", "9", ")", " ", "1", "0", "8", "0", "p", " ", "B", "l", "u", "R", "a", "y", ".", "s", "r", "t">>>>,
     <<<<"a", "s", "s", "r", "t", "-", "1", "0", "0", "2">>, <<"T", "h", "e", " ", "M", "a", "t", "r", "i", "x", " ", "(", "1", "9", "9", "9", ")", " ", "U+84DD", "U+5149", "U+7248", ".", "s", "r", "t">>>>,
     <<<<"a", "s", "s", "r", "t", "-", "1", "0", "0", "3">>, <<"T", "h", "e", " ", "M", "a", "t", "r", "i", "x", " ", "(", "1", "9", "9", "9", ")", " ", "U+7E41", "U+4E2D", "U+5B57", "U+5E55", ".", "a", "s", "s">>>>,
     <<<<"a", "s", "s", "r", "t", "-", "2", "0", "0", "1">>, <<"I", "n", "t", "e", "r", "s", "t", "e", "l", "l", "a", "r", " ", "(", "2", "0", "1", "4", ")", " ", "2", "1", "6", "0", "p", " ", "U", "H", "D", ".", "s", "r", "t">>>>,
     <<<<"a", "s", "s", "r", "t", "-", "3", "0", "0", "1">>, <<"B", "r", "e", "a", "k", "i", "n", "g", " ", "B", "a", "d", " ", "S", "0", "1", "E", "0", "1", " ", "P", "i", "l", "o", "t", ".", "v", "t", "t">>>> >>

\* The transport calls of the operation in progress that open a request for
\* this path.
firstAttemptsOf(path) ==
  {i \in 1..Len(calls) : calls[i].attempt = 1 /\ calls[i].url.path = path}

\* C37: a downloadSubtitle of the real catalog that has returned asked for
\* the gate page and for the resolution once each, returns the plan resolved
\* from them with the bytes of the request sent to the plan's source URL; on
\* the mock catalog, getDownloadPlan and downloadSubtitle of a known id both
\* return that id and the file name of its record, a source URL that contains
\* the id and, for downloadSubtitle, content that is not empty.
C37_PayloadCarriesPlan ==
  /\ (pop.name = "downloadSubtitle" /\ pop.stage = "returned") =>
       /\ Cardinality(firstAttemptsOf(<<<<"d", "o", "w", "n">>, pop.sid>>)) = 1
       /\ Cardinality(firstAttemptsOf(<<<<"a", "p", "i">>, <<"s", "u", "b">>, <<"d", "o", "w", "n">>>>)) = 1
       /\ pop.plan.id = <<"s", "u", "b", "h", "d", ":">> \o pop.sid
       /\ pop.plan.providerId = "subhd"
       /\ DOMAIN pop.plan = {"id", "providerId", "fileName", "sourceUrl", "format"}
       /\ sent[1].url = pop.plan.sourceUrl
       /\ outcome.state = "returned" /\ pop.content = outcome.value
  /\ pop.name \in {"mockGetDownloadPlan", "mockDownloadSubtitle"} =>
       \A i \in 1..Len(MockFileNames) :
         pop.id = MockFileNames[i][1] =>
           /\ pop.stage = "returned"
           /\ pop.plan.id = pop.id
           /\ pop.plan.providerId = "assrt"
           /\ pop.plan.fileName = MockFileNames[i][2]
           /\ includes(pop.plan.sourceUrl, pop.id)
           /\ pop.name = "mockDownloadSubtitle" => Len(pop.content) > 0

\* downloadSubtitle of the third record of the mock catalog has returned.
C37_MockReached ==
  /\ pop.name = "mockDownloadSubtitle" /\ pop.stage = "returned"
  /\ pop.id = <<"a", "s", "s", "r", "t", "-", "1", "0", "0", "3">>
  /\ Len(pop.content) > 0

\* downloadSubtitle of the real catalog has returned after a retried request.
C37_Witness ==
  /\ pop.name = "downloadSubtitle" /\ pop.stage = "returned"
  /\ Len(calls) > 3

\* The set of the languages of a normalized request.
languageSetOf(request) ==
  {request.languagePreferences[i] : i \in 1..Len(request.languagePreferences)}

\* C38: two inputs that are normalized to equal fingerprints have equal
\* lower-cased queries, equal years, seasons and episodes, and equal sets of
\* languages.
C38_FingerprintIdentifies ==
  (fin.fn = "normalize" /\ Len(fout) >= 2
   /\ fout[1].state = "returned" /\ fout[2].state = "returned"
   /\ fout[1].value.fingerprint = fout[2].value.fingerprint) =>
    /\ fout[1].value.normalizedQuery = fout[2].value.normalizedQuery
    /\ fout[1].value.year = fout[2].value.year
    /\ fout[1].value.season = fout[2].value.season
    /\ fout[1].value.episode = fout[2].value.episode
    /\ languageSetOf(fout[1].value) = languageSetOf(fout[2].value)

\* C40: an identifier of letters and digits, handed over bare or behind the
\* prefix, is accepted and parsed to itself, and the plan's id is the prefix
\* followed by the identifier in both cases.
C40_IdRoundTrip ==
  (fin.fn = "parseId" /\ fout # <<>>) =>
    /\ fout[1].ok
    /\ fout[1].sid = fin.s
    /\ fout[1].planId = <<"s", "u", "b", "h", "d", ":">> \o fin.s

\* The identifier that spells the prefix word, handed over bare, was parsed.
C40_Witness ==
  /\ fin.fn = "parseId" /\ fout # <<>>
  /\ fin.s = <<"s", "u", "b", "h", "d">> /\ fin.id = fin.s
  /\ fout[1].ok /\ fout[1].sid = fin.s

====
